---- MODULE Spec2Model ----
(***************************************************************************)
(* Verification model of the vivli-amr-toolkit harmonisation pipeline:     *)
(*   - the header normaliser ascii_snake          (cleaning/atlas_clean.py)*)
(*   - the wide -> long cleaner clean_atlas       (cleaning/atlas_clean.py)*)
(*   - the breakpoint classifiers apply_eucast    (python/apply_breakpoints)*)
(*     mic_to_sir (python/ingest.py) and _classify (python/clean_and_sir)  *)
(*                                                                         *)
(* Text is a sequence of characters, each character a one-letter string;   *)
(* a non-ASCII character is written by its code point ("U00E9").           *)
(* A floating point quantity is an integer count of thousandths (0.5 mg/L  *)
(* is 500), which is exact for every number used here.                     *)
(***************************************************************************)
EXTENDS Integers, Sequences, FiniteSets, TLC

VARIABLES
    col, once, twice, hpc,                       \* header normaliser runs
    obs, bpIdx, sirEucast, suscept, master, sirMaster, bpc, bpErr,  \* classifiers
    xlsx, df, flag_cols, mic_cols, id_cols, df_long, ret, unknown, stages, pc, err,
                                                 \* clean_atlas
    helperIn, helperOut, helperPc,               \* one call of a helper
    vs, masterAug, aug, augPc                    \* augment_with_vendor_sir

snakeVars == <<col, once, twice, hpc>>
bpVars == <<obs, bpIdx, sirEucast, suscept, master, sirMaster, bpc, bpErr>>
cleanVars ==
    <<xlsx, df, flag_cols, mic_cols, id_cols, df_long, ret, unknown, stages, pc,
      err>>
helperVars == <<helperIn, helperOut, helperPc>>
augVars == <<vs, masterAug, aug, augPc>>
vars == <<snakeVars, bpVars, cleanVars, helperVars, augVars>>

\* ------------------------------------------------------------------------
\* Bounds of the model
\* ------------------------------------------------------------------------
MaxHeaderLen == 3
MaxObs == 2
MaxRows == 2

\* ------------------------------------------------------------------------
\* Characters and text
\* ------------------------------------------------------------------------
LowerLetters == <<"a","b","c","d","e","f","g","h","i","j","k","l","m",
                  "n","o","p","q","r","s","t","u","v","w","x","y","z">>
UpperLetters == <<"A","B","C","D","E","F","G","H","I","J","K","L","M",
                  "N","O","P","Q","R","S","T","U","V","W","X","Y","Z">>
Digits == {"0","1","2","3","4","5","6","7","8","9"}
Range(s) == {s[i] : i \in DOMAIN s}
LowerSet == Range(LowerLetters)
UpperSet == Range(UpperLetters)
Whitespace == {" ", "\t", "\n"}

IsAlnum(c) == c \in Digits \/ c \in LowerSet \/ c \in UpperSet

\* str.lower() / str.upper() on one ASCII character
LowerChar(c) ==
    IF c \in UpperSet
      THEN LowerLetters[CHOOSE i \in DOMAIN UpperLetters : UpperLetters[i] = c]
      ELSE c
UpperChar(c) ==
    IF c \in LowerSet
      THEN UpperLetters[CHOOSE i \in DOMAIN LowerLetters : LowerLetters[i] = c]
      ELSE c
Lower(s) == [i \in DOMAIN s |-> LowerChar(s[i])]
Upper(s) == [i \in DOMAIN s |-> UpperChar(s[i])]

RECURSIVE LStrip(_, _)
LStrip(s, chars) ==
    IF s # <<>> /\ Head(s) \in chars THEN LStrip(Tail(s), chars) ELSE s
RECURSIVE RStrip(_, _)
RStrip(s, chars) ==
    IF s # <<>> /\ s[Len(s)] \in chars
      THEN RStrip(SubSeq(s, 1, Len(s) - 1), chars) ELSE s
\* str.strip(chars)
Strip(s, chars) == RStrip(LStrip(s, chars), chars)

\* str.endswith(suffix)
EndsWith(s, suffix) ==
    /\ Len(s) >= Len(suffix)
    /\ SubSeq(s, Len(s) - Len(suffix) + 1, Len(s)) = suffix
DropLast(s, n) == SubSeq(s, 1, Len(s) - n)

\* ------------------------------------------------------------------------
\* ascii_snake
\* ------------------------------------------------------------------------
\* unicodedata.normalize("NFKD", c).encode("ascii", "ignore").decode() on one
\* character: the compatibility decomposition with the non-ASCII code points
\* (combining marks, letters without an ASCII base) dropped.
AsciiFold(c) ==
    CASE c = "U00E9" -> <<"e">>          \* e acute: e + combining acute
      [] c = "U00D1" -> <<"N">>          \* N tilde: N + combining tilde
      [] c = "UFB01" -> <<"f", "i">>     \* ligature fi
      [] c = "U00A0" -> <<" ">>          \* no-break space
      [] c = "U00B5" -> <<>>             \* micro sign: Greek mu, dropped
      [] c = "U4E2D" -> <<>>             \* CJK ideograph, dropped
      [] OTHER -> <<c>>
RECURSIVE NfkdAscii(_)
NfkdAscii(s) ==
    IF s = <<>> THEN <<>> ELSE AsciiFold(Head(s)) \o NfkdAscii(Tail(s))

\* re.sub(r"[^0-9a-zA-Z]+", "_", s): every maximal run of characters that are
\* not ASCII letters or digits becomes one underscore.
RECURSIVE SubNonAlnum(_)
SubNonAlnum(s) ==
    IF s = <<>> THEN <<>>
    ELSE IF IsAlnum(Head(s)) THEN <<Head(s)>> \o SubNonAlnum(Tail(s))
    ELSE IF Len(s) > 1 /\ ~IsAlnum(s[2]) THEN SubNonAlnum(Tail(s))
    ELSE <<"_">> \o SubNonAlnum(Tail(s))

\* A slip in the order of the calls: strip("_") before the substitution.
ascii_snake_StripFirst(c) ==
    Lower(SubNonAlnum(Strip(NfkdAscii(c), {"_"})))
\* The normaliser without its strip("_").
ascii_snake_NoStrip(c) ==
    Lower(SubNonAlnum(NfkdAscii(c)))
ascii_snake(c) ==
    Lower(Strip(SubNonAlnum(NfkdAscii(c)), {"_"}))

\* ------------------------------------------------------------------------
\* Values: a cell is missing (NaN / None / pd.NA), a number or a text
\* ------------------------------------------------------------------------
NA == [k |-> "na"]
Num(v) == [k |-> "num", v |-> v]
Str(s) == [k |-> "str", s |-> s]
IsNA(x) == x.k = "na"          \* pd.isna
IsNum(x) == x.k = "num"
IsStr(x) == x.k = "str"

DigitSeq == <<"0","1","2","3","4","5","6","7","8","9">>
DigitVal(c) == (CHOOSE i \in DOMAIN DigitSeq : DigitSeq[i] = c) - 1
AllDigits(s) == \A i \in DOMAIN s : s[i] \in Digits
RECURSIVE DigitsValue(_)
DigitsValue(s) ==
    IF s = <<>> THEN 0
    ELSE DigitsValue(DropLast(s, 1)) * 10 + DigitVal(s[Len(s)])
RECURSIVE IntDigits(_)
IntDigits(n) ==
    IF n < 10 THEN <<DigitSeq[n + 1]>>
    ELSE IntDigits(n \div 10) \o <<DigitSeq[(n % 10) + 1]>>

\* The value, in thousandths, of an unsigned decimal literal "ddd", "ddd.ddd",
\* "ddd." or ".ddd" (literals here carry at most three decimals).
IsDecimal(s) ==
    LET dots == {i \in DOMAIN s : s[i] = "."} IN
    \/ dots = {} /\ s # <<>> /\ AllDigits(s)
    \/ /\ Cardinality(dots) = 1
       /\ Len(s) > 1
       /\ \A i \in DOMAIN s : s[i] \in Digits \/ s[i] = "."
DecimalValue(s) ==
    LET dots == {i \in DOMAIN s : s[i] = "."}
        d == IF dots = {} THEN Len(s) + 1 ELSE CHOOSE i \in dots : TRUE
        ip == SubSeq(s, 1, d - 1)
        fp == SubSeq(SubSeq(s, d + 1, Len(s)) \o <<"0","0","0">>, 1, 3)
    IN DigitsValue(ip) * 1000 + DigitsValue(fp)

\* float(text): surrounding whitespace and one sign are accepted; anything that
\* is not a decimal literal raises ValueError ([ok |-> FALSE]).
ParseFloat(s) ==
    LET t == Strip(s, Whitespace)
        signed == t # <<>> /\ Head(t) \in {"+", "-"}
        u == IF signed THEN Tail(t) ELSE t
    IN IF IsDecimal(u)
         THEN [ok |-> TRUE,
               v |-> IF signed /\ Head(t) = "-" THEN 0 - DecimalValue(u)
                     ELSE DecimalValue(u)]
         ELSE [ok |-> FALSE, v |-> 0]

\* str(x) of a non-negative float: "8.0", "0.5", "0.125"
FracDigits(f) ==
    LET d3 == <<DigitSeq[(f \div 100) + 1], DigitSeq[((f \div 10) % 10) + 1],
                DigitSeq[(f % 10) + 1]>>
        t == RStrip(d3, {"0"})
    IN IF t = <<>> THEN <<"0">> ELSE t
FormatFloat(v) == IntDigits(v \div 1000) \o <<".">> \o FracDigits(v % 1000)
\* str(x) of any cell value
ToText(x) ==
    IF IsStr(x) THEN x.s
    ELSE IF IsNum(x) THEN FormatFloat(x.v)
    ELSE <<"n","a","n">>

\* ------------------------------------------------------------------------
\* apply_breakpoints.py: the EUCAST helper
\* ------------------------------------------------------------------------
\* the organism and drug keys of eucast_table
T ==
    [
     escherichia_coli |-> <<"e","s","c","h","e","r","i","c","h","i","a","_","c","o","l","i">>,
     amikacin |-> <<"a","m","i","k","a","c","i","n">>,
     cefepime |-> <<"c","e","f","e","p","i","m","e">>,
     levofloxacin |-> <<"l","e","v","o","f","l","o","x","a","c","i","n">>,
     tigecycline |-> <<"t","i","g","e","c","y","c","l","i","n","e">>,
     klebsiella_pneumoniae |-> <<"k","l","e","b","s","i","e","l","l","a","_","p","n","e","u","m","o","n","i","a","e">>,
     pseudomonas_aeruginosa |-> <<"p","s","e","u","d","o","m","o","n","a","s","_","a","e","r","u","g","i","n","o","s","a">>,
     staphylococcus_aureus |-> <<"s","t","a","p","h","y","l","o","c","o","c","c","u","s","_","a","u","r","e","u","s">>,
     vancomycin |-> <<"v","a","n","c","o","m","y","c","i","n">>,
     enterococcus_faecalis |-> <<"e","n","t","e","r","o","c","o","c","c","u","s","_","f","a","e","c","a","l","i","s">>,
     candida_albicans |-> <<"c","a","n","d","i","d","a","_","a","l","b","i","c","a","n","s">>,
     anidulafungin |-> <<"a","n","i","d","u","l","a","f","u","n","g","i","n">>,
     caspofungin |-> <<"c","a","s","p","o","f","u","n","g","i","n">>,
     micafungin |-> <<"m","i","c","a","f","u","n","g","i","n">>,
     fluconazole |-> <<"f","l","u","c","o","n","a","z","o","l","e">>,
     itraconazole |-> <<"i","t","r","a","c","o","n","a","z","o","l","e">>,
     voriconazole |-> <<"v","o","r","i","c","o","n","a","z","o","l","e">>,
     posaconazole |-> <<"p","o","s","a","c","o","n","a","z","o","l","e">>,
     candida_glabrata |-> <<"c","a","n","d","i","d","a","_","g","l","a","b","r","a","t","a">> ]

\* eucast_table: (organism_key, drug_key) -> breakpoints in thousandths of mg/L
eucast_table ==
    (<<T.escherichia_coli, T.amikacin>> :> [s |-> 8000, r |-> 16000])
 @@ (<<T.escherichia_coli, T.cefepime>> :> [s |-> 1000, r |-> 4000])
 @@ (<<T.escherichia_coli, T.levofloxacin>> :> [s |-> 500, r |-> 1000])
 @@ (<<T.escherichia_coli, T.tigecycline>> :> [s |-> 500, r |-> 500])
 @@ (<<T.klebsiella_pneumoniae, T.levofloxacin>> :> [s |-> 500, r |-> 1000])
 @@ (<<T.klebsiella_pneumoniae, T.tigecycline>> :> [s |-> 500, r |-> 500])
 @@ (<<T.pseudomonas_aeruginosa, T.amikacin>> :> [s |-> 8000, r |-> 16000])
 @@ (<<T.pseudomonas_aeruginosa, T.levofloxacin>> :> [s |-> 500, r |-> 1000])
 @@ (<<T.pseudomonas_aeruginosa, T.tigecycline>> :> [s |-> 500, r |-> 500])
 @@ (<<T.staphylococcus_aureus, T.vancomycin>> :> [s |-> 2000, r |-> 2000])
 @@ (<<T.staphylococcus_aureus, T.levofloxacin>> :> [s |-> 1000, r |-> 2000])
 @@ (<<T.staphylococcus_aureus, T.tigecycline>> :> [s |-> 250, r |-> 500])
 @@ (<<T.enterococcus_faecalis, T.tigecycline>> :> [s |-> 250, r |-> 250])
 @@ (<<T.candida_albicans, T.anidulafungin>> :> [s |-> 30, r |-> 60])
 @@ (<<T.candida_albicans, T.caspofungin>> :> [s |-> 60, r |-> 120])
 @@ (<<T.candida_albicans, T.micafungin>> :> [s |-> 30, r |-> 60])
 @@ (<<T.candida_albicans, T.fluconazole>> :> [s |-> 2000, r |-> 4000])
 @@ (<<T.candida_albicans, T.itraconazole>> :> [s |-> 125, r |-> 250])
 @@ (<<T.candida_albicans, T.voriconazole>> :> [s |-> 125, r |-> 250])
 @@ (<<T.candida_albicans, T.posaconazole>> :> [s |-> 125, r |-> 250])
 @@ (<<T.candida_glabrata, T.fluconazole>> :> [s |-> 32000, r |-> 32000])
 @@ (<<T.candida_glabrata, T.anidulafungin>> :> [s |-> 30, r |-> 60])
 @@ (<<T.candida_glabrata, T.caspofungin>> :> [s |-> 60, r |-> 120])
 @@ (<<T.candida_glabrata, T.micafungin>> :> [s |-> 30, r |-> 60])

\* str.replace(" ", "_")
SpacesToUnderscores(s) == [i \in DOMAIN s |-> IF s[i] = " " THEN "_" ELSE s[i]]

\* The texts r"_\(?(clsi|eucast)\)?$" matches
StandardSuffixes ==
    LET names == {<<"c","l","s","i">>, <<"e","u","c","a","s","t">>} IN
    {<<"_">> \o open \o n \o close :
        open \in {<<>>, <<"(">>}, n \in names, close \in {<<>>, <<")">>}}
\* re.sub(r"_\(?(clsi|eucast)\)?$", "", s): the leftmost match that reaches the
\* end of the text, i.e. the longest matching suffix, is removed.
StripStandard(s) ==
    LET hits == {x \in StandardSuffixes : EndsWith(s, x)} IN
    IF hits = {} THEN s
    ELSE DropLast(s, Len(CHOOSE x \in hits : \A y \in hits : Len(y) <= Len(x)))

_clean_key(text) ==
    StripStandard(SpacesToUnderscores(Lower(Strip(ToText(text), Whitespace))))

\* re.sub(r"[<>]=?", "", s)
RECURSIVE StripInequality(_)
StripInequality(s) ==
    IF s = <<>> THEN <<>>
    ELSE IF Head(s) \in {"<", ">"}
      THEN IF Len(s) > 1 /\ s[2] = "="
             THEN StripInequality(Tail(Tail(s)))
             ELSE StripInequality(Tail(s))
    ELSE <<Head(s)>> \o StripInequality(Tail(s))

\* The comparison of apply_eucast with the resistant bound made inclusive.
EucastCall_Inclusive(mic_val, bp) ==
    IF mic_val <= bp.s THEN "S"
    ELSE IF mic_val >= bp.r THEN "R"
    ELSE "I"
EucastCall(mic_val, bp) ==
    IF mic_val <= bp.s THEN "S"
    ELSE IF mic_val > bp.r THEN "R"
    ELSE "I"

\* apply_eucast(mic, organism, drug): "S", "I", "R" or "None"
apply_eucast(mic, organism, drug) ==
    IF IsNA(mic) \/ IsNA(organism) \/ IsNA(drug) THEN "None"
    ELSE LET org_key == _clean_key(organism)
             drug_key == _clean_key(drug)
             mic_val == ParseFloat(StripInequality(ToText(mic)))
         IN IF ~mic_val.ok THEN "None"
            ELSE IF <<org_key, drug_key>> \notin DOMAIN eucast_table THEN "None"
            ELSE EucastCall(mic_val.v, eucast_table[<<org_key, drug_key>>])

\* ------------------------------------------------------------------------
\* Sample texts of the inputs
\* ------------------------------------------------------------------------
Txt ==
    [
     EscherichiaColi |-> <<"E","s","c","h","e","r","i","c","h","i","a"," ","c","o","l","i">>,
     EscherichiaColiPadded |-> <<" ","E","S","C","H","E","R","I","C","H","I","A"," ","C","O","L","I"," ">>,
     EscherichiaColiEucast |-> <<"E","s","c","h","e","r","i","c","h","i","a"," ","c","o","l","i"," ","(","E","U","C","A","S","T",")">>,
     ProteusMirabilis |-> <<"P","r","o","t","e","u","s"," ","m","i","r","a","b","i","l","i","s">>,
     Amikacin |-> <<"A","m","i","k","a","c","i","n">>,
     AmikacinClsi |-> <<"a","m","i","k","a","c","i","n","_","c","l","s","i">>,
     Tigecycline |-> <<"T","i","g","e","c","y","c","l","i","n","e">>,
     TigecyclinePadded |-> <<"T","i","g","e","c","y","c","l","i","n","e"," ">>,
     Cefepime |-> <<"C","e","f","e","p","i","m","e">>,
     Colistin |-> <<"C","o","l","i","s","t","i","n">>,
     LeHalf |-> <<"<","=","0",".","5">>,
     Gt16 |-> <<">","1","6">>,
     Abc |-> <<"a","b","c">>,
     CLSI |-> <<"C","L","S","I">>,
     EUCAST |-> <<"E","U","C","A","S","T">>,
     US |-> <<"U","S">>,
     Ecoli |-> <<"E","."," ","c","o","l","i">>,
     S |-> <<"S">>,
     Resistant |-> <<"R","e","s","i","s","t","a","n","t">>,
     PaddedR |-> <<" ","r"," ">>,
     I |-> <<"I">>,
     MAYBE |-> <<"M","A","Y","B","E">>,
     NS |-> <<"N","S">>,
     U |-> <<"U">>,
     Le16 |-> <<"<","=","1","6">>,
     Dot |-> <<".">>,
     Susceptible |-> <<"s","u","s","c","e","p","t","i","b","l","e">>,
     Intermediate |-> <<"I","n","t","e","r","m","e","d","i","a","t","e">> ]

\* ------------------------------------------------------------------------
\* ingest.py: the table-driven classifier mic_to_sir
\* ------------------------------------------------------------------------
\* docs/eucast_2025_breakpoints.csv as read by pd.read_csv: a sample with a
\* key whose bounds differ, a key whose bounds coincide and a key that has no
\* resistant bound.
EucastCsv == <<
    [organism |-> Txt.EscherichiaColi, drug |-> Txt.Amikacin,
     susceptible_MIC_max |-> Num(8000), resistant_MIC_min |-> Num(16000)],
    [organism |-> Txt.EscherichiaColi, drug |-> Txt.TigecyclinePadded,
     susceptible_MIC_max |-> Num(500), resistant_MIC_min |-> Num(500)],
    [organism |-> Txt.EscherichiaColi, drug |-> Txt.Cefepime,
     susceptible_MIC_max |-> Num(1000), resistant_MIC_min |-> NA] >>

\* f"{organism.lower().strip()}||{drug.lower().strip()}"
BreakpointKey(organism, drug) ==
    Strip(Lower(organism), Whitespace) \o <<"|", "|">> \o
    Strip(Lower(drug), Whitespace)

\* load_breakpoints(): the table indexed by key
BREAKPOINTS ==
    [key \in {BreakpointKey(EucastCsv[i].organism, EucastCsv[i].drug) :
                 i \in DOMAIN EucastCsv} |->
        EucastCsv[CHOOSE i \in DOMAIN EucastCsv :
            BreakpointKey(EucastCsv[i].organism, EucastCsv[i].drug) = key]]

\* The resistant bound read as exclusive, as in apply_eucast.
TableCall_Strict(mic, s_max, r_min) ==
    IF ~IsNA(s_max) /\ mic <= s_max.v THEN "S"
    ELSE IF ~IsNA(r_min) /\ mic > r_min.v THEN "R"
    ELSE "I"
\* The comparisons of mic_to_sir on a numeric MIC: a comparison with NaN is
\* False.
TableCall(mic, s_max, r_min) ==
    IF ~IsNA(s_max) /\ mic <= s_max.v THEN "S"
    ELSE IF ~IsNA(r_min) /\ mic >= r_min.v THEN "R"
    ELSE "I"

\* mic_to_sir(row): "S", "I", "R", "NA" (pd.NA), or the exception it raises:
\* a missing organism or drug is a float, which has no .lower(); a text MIC
\* cannot be compared with a float.
mic_to_sir(row) ==
    IF ~IsStr(row.organism) \/ ~IsStr(row.drug) THEN "AttributeError"
    ELSE LET key == BreakpointKey(row.organism.s, row.drug.s) IN
         IF key \notin DOMAIN BREAKPOINTS THEN "NA"
         ELSE IF IsNA(row.mic) THEN "NA"
         ELSE IF IsStr(row.mic) THEN "TypeError"
         ELSE TableCall(row.mic.v, BREAKPOINTS[key].susceptible_MIC_max,
                        BREAKPOINTS[key].resistant_MIC_min)

\* ------------------------------------------------------------------------
\* clean_and_sir.py: attach_breakpoints and assign_sir
\* ------------------------------------------------------------------------
\* docs/clsi_2024_breakpoints.xlsx, sheet "MIC BP Table", after the renames
ClsiSheet == <<
    [cls_i_organism |-> Txt.EscherichiaColi, cls_i_drug |-> Txt.Amikacin,
     s_max |-> Num(16000), r_min |-> Num(64000), source |-> Txt.CLSI] >>
\* the EUCAST csv after the renames
EucastSheet ==
    [i \in DOMAIN EucastCsv |->
        [cls_i_organism |-> EucastCsv[i].organism,
         cls_i_drug |-> EucastCsv[i].drug,
         s_max |-> EucastCsv[i].susceptible_MIC_max,
         r_min |-> EucastCsv[i].resistant_MIC_min,
         source |-> Txt.EUCAST]]

\* drop_duplicates(subset=[...]): the first row of every key is kept
BpSubset(b) == <<b.cls_i_organism, b.cls_i_drug, b.source>>
RECURSIVE DropDuplicateBps(_)
DropDuplicateBps(rows) ==
    IF rows = <<>> THEN <<>>
    ELSE LET front == DropDuplicateBps(DropLast(rows, 1))
             last == rows[Len(rows)]
         IN IF \E i \in DOMAIN front : BpSubset(front[i]) = BpSubset(last)
              THEN front ELSE Append(front, last)
bp_all == DropDuplicateBps(ClsiSheet \o EucastSheet)

\* df.merge(bp_all, on=["cls_i_organism","cls_i_drug"], how="left") for one
\* row of df: one output row per matching row of bp_all, or one row with the
\* break-point columns missing.
AttachRow(row) ==
    LET Match(b) == /\ IsStr(row.organism) /\ row.organism.s = b.cls_i_organism
                    /\ IsStr(row.drug) /\ row.drug.s = b.cls_i_drug
        hits == SelectSeq(bp_all, Match)
    IN IF hits = <<>>
         THEN << [mic |-> row.mic, organism |-> row.organism, drug |-> row.drug,
                  s_max |-> NA, r_min |-> NA, source |-> NA] >>
         ELSE [i \in DOMAIN hits |->
                 [mic |-> row.mic, organism |-> row.organism, drug |-> row.drug,
                  s_max |-> hits[i].s_max, r_min |-> hits[i].r_min,
                  source |-> Str(hits[i].source)]]
RECURSIVE attach_breakpoints(_)
attach_breakpoints(rows) ==
    IF rows = <<>> THEN <<>>
    ELSE AttachRow(Head(rows)) \o attach_breakpoints(Tail(rows))

\* _classify(row) of assign_sir: "U", "S", "R", "I", or the TypeError of
\* comparing a text MIC with a float.
_classify(row) ==
    IF IsNA(row.mic) \/ IsNA(row.s_max) \/ IsNA(row.r_min) THEN "U"
    ELSE IF IsStr(row.mic) THEN "TypeError"
    ELSE IF row.mic.v <= row.s_max.v THEN "S"
    ELSE IF row.mic.v >= row.r_min.v THEN "R"
    ELSE "I"

\* ------------------------------------------------------------------------
\* Programs at rest (a specification runs one family of programs)
\* ------------------------------------------------------------------------
SeqsUpTo(S, n) == UNION {[1..k -> S] : k \in 0..n}
NoError == "none"

SnakeIdle == col = <<>> /\ once = <<>> /\ twice = <<>> /\ hpc = "idle"
BpIdle ==
    /\ obs = <<>> /\ bpIdx = 1 /\ sirEucast = <<>> /\ suscept = <<>>
    /\ master = <<>> /\ sirMaster = <<>> /\ bpc = "idle"
    /\ bpErr = [ingest |-> NoError, assign |-> NoError]
HelperIdle ==
    /\ helperIn = <<>> /\ helperOut = <<>> /\ helperPc = "idle"
    /\ vs = <<>> /\ masterAug = <<>> /\ aug = <<>> /\ augPc = "idle"
CleanIdle ==
    /\ xlsx = [cols |-> <<>>, rows |-> <<>>]
    /\ df = [cols |-> <<>>, rows |-> <<>>]
    /\ flag_cols = <<>> /\ mic_cols = <<>> /\ id_cols = <<>>
    /\ df_long = <<>> /\ ret = <<>> /\ unknown = {} /\ stages = <<>>
    /\ pc = "idle" /\ err = NoError

\* ------------------------------------------------------------------------
\* The header normaliser applied to a raw header, then to its own output
\* ------------------------------------------------------------------------
HeaderAlphabet == {"a", "B", "1", "_", " ", "-", "U00E9", "UFB01", "U4E2D"}

InitSnake ==
    /\ col \in SeqsUpTo(HeaderAlphabet, MaxHeaderLen)
    /\ once = <<>> /\ twice = <<>> /\ hpc = "raw"
    /\ BpIdle /\ CleanIdle /\ HelperIdle

NormalizeOnce ==
    /\ hpc = "raw"
    /\ once' = ascii_snake(col)
    /\ hpc' = "once"
    /\ UNCHANGED <<col, twice, bpVars, cleanVars, helperVars, augVars>>

NormalizeTwice ==
    /\ hpc = "once"
    /\ twice' = ascii_snake(once)
    /\ hpc' = "twice"
    /\ UNCHANGED <<col, once, bpVars, cleanVars, helperVars, augVars>>

NextSnake == NormalizeOnce \/ NormalizeTwice
SpecSnake == InitSnake /\ [][NextSnake]_vars

\* ------------------------------------------------------------------------
\* The three classifiers run, one after the other, over a table of
\* observations (mic, organism, drug)
\* ------------------------------------------------------------------------
Exceptions == {"AttributeError", "TypeError"}

BroadMics ==
    {NA} \cup {Num(v) : v \in {250, 500, 1000, 8000, 12000, 16000, 32000}}
         \cup {Str(Txt.LeHalf), Str(Txt.Gt16), Str(Txt.Abc)}
BroadOrganisms ==
    {NA, Str(Txt.EscherichiaColi), Str(Txt.EscherichiaColiPadded),
     Str(Txt.EscherichiaColiEucast), Str(Txt.ProteusMirabilis)}
BroadDrugs ==
    {NA, Str(Txt.Amikacin), Str(Txt.AmikacinClsi), Str(Txt.Tigecycline),
     Str(Txt.Cefepime), Str(Txt.Colistin)}
NarrowMics == {NA, Num(8000), Num(16000)}
NarrowOrganisms == {NA, Str(Txt.EscherichiaColi), Str(Txt.ProteusMirabilis)}
NarrowDrugs == {NA, Str(Txt.Amikacin)}

BpStart ==
    /\ bpIdx = 1 /\ sirEucast = <<>> /\ suscept = <<>> /\ master = <<>>
    /\ sirMaster = <<>> /\ bpc = "eucast"
    /\ bpErr = [ingest |-> NoError, assign |-> NoError]
    /\ SnakeIdle /\ CleanIdle /\ HelperIdle

\* one observation, drawn widely
InitClassify ==
    /\ obs \in {<<o>> : o \in [mic : BroadMics, organism : BroadOrganisms,
                               drug : BroadDrugs]}
    /\ BpStart
\* a table of observations
InitApply ==
    /\ obs \in SeqsUpTo([mic : NarrowMics, organism : NarrowOrganisms,
                         drug : NarrowDrugs], MaxObs)
    /\ BpStart

\* add_eucast_column: out.apply(lambda r: apply_eucast(...), axis=1), one row
AddEucastRow ==
    /\ bpc = "eucast" /\ bpIdx <= Len(obs)
    /\ sirEucast' = Append(sirEucast,
           apply_eucast(obs[bpIdx].mic, obs[bpIdx].organism, obs[bpIdx].drug))
    /\ bpIdx' = bpIdx + 1
    /\ UNCHANGED <<obs, suscept, master, sirMaster, bpc, bpErr>>
    /\ UNCHANGED <<snakeVars, cleanVars, helperVars, augVars>>
AddEucastReturn ==
    /\ bpc = "eucast" /\ bpIdx > Len(obs)
    /\ bpc' = "ingest" /\ bpIdx' = 1
    /\ UNCHANGED <<obs, sirEucast, suscept, master, sirMaster, bpErr>>
    /\ UNCHANGED <<snakeVars, cleanVars, helperVars, augVars>>

\* ingest_one_excel: df.apply(mic_to_sir, axis=1), one row; an exception leaves
\* apply and ingest_one_excel, and no susceptibility column is written.
IngestRow ==
    /\ bpc = "ingest" /\ bpIdx <= Len(obs)
    /\ LET r == mic_to_sir(obs[bpIdx]) IN
         IF r \in Exceptions
           THEN /\ bpErr' = [bpErr EXCEPT !.ingest = r]
                /\ suscept' = <<>>
                /\ bpc' = "attach" /\ bpIdx' = 1
           ELSE /\ suscept' = Append(suscept, r)
                /\ bpIdx' = bpIdx + 1
                /\ UNCHANGED <<bpc, bpErr>>
    /\ UNCHANGED <<obs, sirEucast, master, sirMaster>>
    /\ UNCHANGED <<snakeVars, cleanVars, helperVars, augVars>>
IngestWrite ==
    /\ bpc = "ingest" /\ bpIdx > Len(obs)
    /\ bpc' = "attach" /\ bpIdx' = 1
    /\ UNCHANGED <<obs, sirEucast, suscept, master, sirMaster, bpErr>>
    /\ UNCHANGED <<snakeVars, cleanVars, helperVars, augVars>>

\* clean_and_sir: df = attach_breakpoints(df)
AttachBreakpoints ==
    /\ bpc = "attach"
    /\ master' = attach_breakpoints(obs)
    /\ bpc' = "assign"
    /\ UNCHANGED <<obs, bpIdx, sirEucast, suscept, sirMaster, bpErr>>
    /\ UNCHANGED <<snakeVars, cleanVars, helperVars, augVars>>
\* assign_sir: df.apply(_classify, axis=1), one row
AssignSirRow ==
    /\ bpc = "assign" /\ bpIdx <= Len(master)
    /\ LET r == _classify(master[bpIdx]) IN
         IF r \in Exceptions
           THEN /\ bpErr' = [bpErr EXCEPT !.assign = r]
                /\ sirMaster' = <<>>
                /\ bpc' = "done"
                /\ UNCHANGED bpIdx
           ELSE /\ sirMaster' = Append(sirMaster, r)
                /\ bpIdx' = bpIdx + 1
                /\ UNCHANGED <<bpc, bpErr>>
    /\ UNCHANGED <<obs, sirEucast, suscept, master>>
    /\ UNCHANGED <<snakeVars, cleanVars, helperVars, augVars>>
AssignSirReturn ==
    /\ bpc = "assign" /\ bpIdx > Len(master)
    /\ bpc' = "done"
    /\ UNCHANGED <<obs, bpIdx, sirEucast, suscept, master, sirMaster, bpErr>>
    /\ UNCHANGED <<snakeVars, cleanVars, helperVars, augVars>>

NextBP ==
    \/ AddEucastRow \/ AddEucastReturn
    \/ IngestRow \/ IngestWrite
    \/ AttachBreakpoints
    \/ AssignSirRow \/ AssignSirReturn
SpecClassify == InitClassify /\ [][NextBP]_vars
SpecApply == InitApply /\ [][NextBP]_vars

\* ------------------------------------------------------------------------
\* Properties of the breakpoint classifiers
\* ------------------------------------------------------------------------
HasEucastEntry(o) ==
    /\ ~IsNA(o.organism) /\ ~IsNA(o.drug)
    /\ <<_clean_key(o.organism), _clean_key(o.drug)>> \in DOMAIN eucast_table
EucastEntry(o) == eucast_table[<<_clean_key(o.organism), _clean_key(o.drug)>>]

\* C7: for a numeric MIC and a key that has an entry (s <= r) of eucast_table,
\* apply_eucast returns exactly one of S, I, R: S exactly when mic <= s, R
\* exactly when mic > r, I otherwise.
C7_EucastBoundaries ==
    \A i \in DOMAIN sirEucast :
        (IsNum(obs[i].mic) /\ HasEucastEntry(obs[i])) =>
            LET bp == EucastEntry(obs[i])
                m == obs[i].mic.v
            IN /\ bp.s <= bp.r
               /\ sirEucast[i] \in {"S", "I", "R"}
               /\ (sirEucast[i] = "S") <=> (m <= bp.s)
               /\ (sirEucast[i] = "R") <=> (m > bp.r)
               /\ (sirEucast[i] = "I") <=> (m > bp.s /\ m <= bp.r)
\* a MIC equal to the resistant bound of a key with r > s has been called I
C7_Witness ==
    \E i \in DOMAIN sirEucast :
        /\ IsNum(obs[i].mic) /\ HasEucastEntry(obs[i])
        /\ EucastEntry(obs[i]).s < EucastEntry(obs[i]).r
        /\ obs[i].mic.v = EucastEntry(obs[i]).r
        /\ sirEucast[i] = "I"

HasTableEntry(o) ==
    /\ IsStr(o.organism) /\ IsStr(o.drug)
    /\ BreakpointKey(o.organism.s, o.drug.s) \in DOMAIN BREAKPOINTS
TableEntry(o) == BREAKPOINTS[BreakpointKey(o.organism.s, o.drug.s)]
\* an observation of mic_to_sir whose key has both bounds, s_max < r_min
IngestCase(o) ==
    /\ IsNum(o.mic) /\ HasTableEntry(o)
    /\ IsNum(TableEntry(o).susceptible_MIC_max)
    /\ IsNum(TableEntry(o).resistant_MIC_min)
    /\ TableEntry(o).susceptible_MIC_max.v < TableEntry(o).resistant_MIC_min.v
\* a row of assign_sir whose break-points are both present, s_max < r_min
AssignCase(row) ==
    /\ IsNum(row.mic) /\ IsNum(row.s_max) /\ IsNum(row.r_min)
    /\ row.s_max.v < row.r_min.v

NoEucastCall(o) ==
    IsNA(o.mic) \/ IsNA(o.organism) \/ IsNA(o.drug) \/ ~HasEucastEntry(o)
NoTableCall(o) ==
    \/ IsNA(o.mic) \/ IsNA(o.organism) \/ IsNA(o.drug)
    \/ (IsStr(o.organism) /\ IsStr(o.drug) /\ ~HasTableEntry(o))

\* C9: apply_eucast and mic_to_sir return a missing result and never raise
\* when the MIC, the organism or the drug is missing or the key has no entry,
\* and the remaining rows are classified.
C9_NoCallNeverRaises ==
    /\ \A i \in DOMAIN sirEucast : NoEucastCall(obs[i]) => sirEucast[i] = "None"
    /\ (bpc # "eucast" => Len(sirEucast) = Len(obs))
    /\ bpErr.ingest = NoError
    /\ \A i \in DOMAIN suscept : NoTableCall(obs[i]) => suscept[i] = "NA"
    /\ (bpc \notin {"eucast", "ingest"} => Len(suscept) = Len(obs))
\* The half of C9 that is about apply_eucast and add_eucast_column alone.
C9_EucastHalf ==
    /\ \A i \in DOMAIN sirEucast : NoEucastCall(obs[i]) => sirEucast[i] = "None"
    /\ (bpc # "eucast" => Len(sirEucast) = Len(obs))

\* ------------------------------------------------------------------------
\* Properties of the header normaliser
\* ------------------------------------------------------------------------
\* C10: ascii_snake is idempotent: ascii_snake(ascii_snake(h)) = ascii_snake(h)
C10_Idempotent == hpc = "twice" => twice = once
\* a header that the normaliser changes has been normalised twice
C10_Witness ==
    /\ hpc = "twice" /\ twice = once
    /\ once # col /\ once # <<>>
    /\ \E i \in DOMAIN once : once[i] = "_"

\* ------------------------------------------------------------------------
\* atlas_clean.py: constants
\* ------------------------------------------------------------------------
\* the column names of META_COLS
Col ==
    [
     isolate_id |-> <<"i","s","o","l","a","t","e","_","i","d">>,
     vivli_no |-> <<"v","i","v","l","i","_","n","o">>,
     uid |-> <<"u","i","d">>,
     pathogen |-> <<"p","a","t","h","o","g","e","n">>,
     species |-> <<"s","p","e","c","i","e","s">>,
     organismname |-> <<"o","r","g","a","n","i","s","m","n","a","m","e">>,
     country |-> <<"c","o","u","n","t","r","y">>,
     region |-> <<"r","e","g","i","o","n">>,
     state |-> <<"s","t","a","t","e">>,
     year |-> <<"y","e","a","r">>,
     yearcollected |-> <<"y","e","a","r","c","o","l","l","e","c","t","e","d">>,
     gender |-> <<"g","e","n","d","e","r">>,
     age |-> <<"a","g","e">>,
     age_group |-> <<"a","g","e","_","g","r","o","u","p">>,
     study |-> <<"s","t","u","d","y">>,
     bodylocation |-> <<"b","o","d","y","l","o","c","a","t","i","o","n">>,
     source |-> <<"s","o","u","r","c","e">> ]

FLAG_SUFFIXES ==
    {<<"_","i">>,
     <<"_","f","l","a","g">>,
     <<"_","i","n","t","e","r","p","r","e","t","a","t","i","o","n">>}
META_COLS ==
    {Col.isolate_id, Col.vivli_no, Col.uid,
     Col.pathogen, Col.species, Col.organismname,
     Col.country, Col.region, Col.state,
     Col.year, Col.yearcollected, Col.gender,
     Col.age, Col.age_group, Col.study,
     Col.bodylocation, Col.source}
\* FLAG_MAP: token -> canonical flag; "U" maps to pd.NA
FLAG_MAP ==
    (<<"S">> :> Str(<<"S">>))
 @@ (<<"S","U","S","C","E","P","T","I","B","L","E">> :> Str(<<"S">>))
 @@ (<<"R">> :> Str(<<"R">>))
 @@ (<<"R","E","S","I","S","T","A","N","T">> :> Str(<<"R">>))
 @@ (<<"N","S">> :> Str(<<"R">>))
 @@ (<<"I">> :> Str(<<"I">>))
 @@ (<<"I","N","T","E","R","M","E","D","I","A","T","E">> :> Str(<<"I">>))
 @@ (<<"U">> :> NA)

\* is_probably_mic_col(series, sample_size=100)
SampleSize == 100

\* ------------------------------------------------------------------------
\* atlas_clean.py: helper functions
\* ------------------------------------------------------------------------
\* str.replace(",", ".")
CommaToDot(s) == [i \in DOMAIN s |-> IF s[i] = "," THEN "." ELSE s[i]]

\* str.extract(r"([0-9.]+)"): the first maximal run of digits and dots, or
\* <<>> when the text holds none
FirstNumericRun(s) ==
    LET isNum(i) == s[i] \in Digits \/ s[i] = "."
        starts == {i \in DOMAIN s : isNum(i)}
    IN IF starts = {} THEN <<>>
       ELSE LET a == CHOOSE i \in starts : \A j \in starts : i <= j
                b == CHOOSE i \in a..Len(s) :
                        /\ \A j \in a..i : isNum(j)
                        /\ (i = Len(s) \/ ~isNum(i + 1))
            IN SubSeq(s, a, b)

\* parse_mic on one value: astype("string"), comma to dot, extract, then
\* astype("float64"), which raises ValueError on a run such as "1.2.3" or "."
ParseMicCell(x) ==
    IF IsNA(x) THEN [ok |-> TRUE, val |-> NA]
    ELSE LET run == FirstNumericRun(CommaToDot(ToText(x))) IN
         IF run = <<>> THEN [ok |-> TRUE, val |-> NA]
         ELSE IF ParseFloat(run).ok
           THEN [ok |-> TRUE, val |-> Num(ParseFloat(run).v)]
         ELSE [ok |-> FALSE, val |-> NA]
\* parse_mic(series): one result per value, or ValueError for the column
parse_mic(series) ==
    [ok |-> \A i \in DOMAIN series : ParseMicCell(series[i]).ok,
     val |-> [i \in DOMAIN series |-> ParseMicCell(series[i]).val]]

RECURSIVE InsertSorted(_, _)
InsertSorted(x, s) ==
    IF s = <<>> THEN <<x>>
    ELSE IF x <= Head(s) THEN <<x>> \o s
    ELSE <<Head(s)>> \o InsertSorted(x, Tail(s))
RECURSIVE SortInts(_)
SortInts(s) ==
    IF s = <<>> THEN <<>> ELSE InsertSorted(Head(s), SortInts(Tail(s)))

\* Series.quantile(n/4) by linear interpolation, times four: the position is
\* (len - 1) * n / 4 in the sorted values
QuantileTimes4(sorted, n) ==
    LET pos4 == (Len(sorted) - 1) * n
        lo == (pos4 \div 4) + 1
        rem == pos4 % 4
        hi == IF rem = 0 THEN lo ELSE lo + 1
    IN 4 * sorted[lo] + (sorted[hi] - sorted[lo]) * rem

IsPresent(x) == ~IsNA(x)
\* The Tukey fence of a group, times eight: q1 - 1.5 (q3 - q1), q3 + 1.5 (q3 - q1)
Fence(group) ==
    LET present == SelectSeq(group, IsPresent)
        sorted == SortInts([i \in DOMAIN present |-> present[i].v])
        q1 == QuantileTimes4(sorted, 1)
        q3 == QuantileTimes4(sorted, 3)
    IN [lo |-> 2 * q1 - 3 * (q3 - q1), hi |-> 2 * q3 + 3 * (q3 - q1)]
\* between with the ends left out
Between_Exclusive(x, fence) == ~IsNA(x) /\ fence.lo < 8 * x.v /\ 8 * x.v < fence.hi
\* group.between(lo, hi): both ends inclusive; False for a missing value
Between(x, fence) == ~IsNA(x) /\ fence.lo <= 8 * x.v /\ 8 * x.v <= fence.hi
\* iqr_trim(group): group.where(group.between(lo, hi)); the quantiles of a
\* group without values are NaN and nothing is between them
iqr_trim(group) ==
    IF SelectSeq(group, IsPresent) = <<>>
      THEN [i \in DOMAIN group |-> NA]
      ELSE [i \in DOMAIN group |->
              IF Between(group[i], Fence(group)) THEN group[i] ELSE NA]

\* parseable(val) of is_probably_mic_col
Parseable(val) ==
    ParseFloat(LStrip(CommaToDot(Strip(val, Whitespace)), {">", "<", "="})).ok
\* series.head(n)
HeadN(s, n) == SubSeq(s, 1, IF Len(s) < n THEN Len(s) ELSE n)
is_probably_mic_col(series) ==
    LET present == SelectSeq(series, IsPresent)
        sample == HeadN([i \in DOMAIN present |-> ToText(present[i])], SampleSize)
        parseable_count == Cardinality({i \in DOMAIN sample : Parseable(sample[i])})
    IN sample # <<>> /\ 2 * parseable_count > Len(sample)

\* is_numeric_dtype(df[c]): a column read from a sheet has a numeric dtype when
\* it has rows and each of its cells is a number or empty
is_numeric_dtype(series) ==
    series # <<>> /\ \A i \in DOMAIN series : IsNum(series[i]) \/ IsNA(series[i])

\* ------------------------------------------------------------------------
\* Tables: a wide table is [cols, rows], each row a sequence of cells in the
\* order of cols; a long table is a sequence of records
\* ------------------------------------------------------------------------
HasCol(cols, name) == \E i \in DOMAIN cols : cols[i] = name
ColIndex(cols, name) == CHOOSE i \in DOMAIN cols : cols[i] = name
Column(t, name) ==
    [r \in DOMAIN t.rows |-> t.rows[r][ColIndex(t.cols, name)]]

RECURSIVE Flatten(_)
Flatten(ss) == IF ss = <<>> THEN <<>> ELSE Head(ss) \o Flatten(Tail(ss))

\* the order of sorted() on column names: code point order
AsciiOrder == DigitSeq \o UpperLetters \o <<"_">> \o LowerLetters
CharRank(c) ==
    IF \E i \in DOMAIN AsciiOrder : AsciiOrder[i] = c
      THEN CHOOSE i \in DOMAIN AsciiOrder : AsciiOrder[i] = c
      ELSE 0
RECURSIVE LexLess(_, _)
LexLess(a, b) ==
    IF b = <<>> THEN FALSE
    ELSE IF a = <<>> THEN TRUE
    ELSE IF Head(a) = Head(b) THEN LexLess(Tail(a), Tail(b))
    ELSE CharRank(Head(a)) < CharRank(Head(b))
RECURSIVE SortNames(_)
SortNames(S) ==
    IF S = {} THEN <<>>
    ELSE LET m == CHOOSE x \in S : \A y \in S \ {x} : LexLess(x, y)
         IN <<m>> \o SortNames(S \ {m})

\* df.rename(columns={...}) of step 2: each label is mapped once
KeyFieldName(c) ==
    CASE c = Col.vivli_no -> Col.isolate_id
      [] c = Col.uid -> Col.isolate_id
      [] c = Col.species -> Col.pathogen
      [] c = Col.organismname -> Col.pathogen
      [] c = Col.yearcollected -> Col.year
      [] OTHER -> c

\* df.drop_duplicates(): the first of equal rows is kept
RECURSIVE drop_duplicates(_)
drop_duplicates(rows) ==
    IF rows = <<>> THEN <<>>
    ELSE LET front == drop_duplicates(DropLast(rows, 1))
             last == rows[Len(rows)]
         IN IF \E i \in DOMAIN front : front[i] = last
              THEN front ELSE Append(front, last)

\* c.endswith(FLAG_SUFFIXES)
IsFlagCol(c) == \E x \in FLAG_SUFFIXES : EndsWith(c, x)
\* flag_cols of step 4
FlagCols(t) == SelectSeq(t.cols, IsFlagCol)
\* MIC columns found by their name, as MIC_COL_RX of reshape_wide.py finds them
MicCols_ByName(t) ==
    LET IsMic(c) == EndsWith(c, <<"_", "m", "i", "c">>)
    IN SelectSeq(t.cols, IsMic)
\* step 4 without the test against META_COLS
MicCols_IgnoreMeta(t) ==
    LET IsMic(c) ==
            /\ c \notin Range(FlagCols(t))
            /\ (is_numeric_dtype(Column(t, c)) \/ is_probably_mic_col(Column(t, c)))
    IN SelectSeq(t.cols, IsMic)
\* mic_cols of step 4
MicCols(t) ==
    LET IsMic(c) ==
            /\ c \notin META_COLS
            /\ c \notin Range(FlagCols(t))
            /\ (is_numeric_dtype(Column(t, c)) \/ is_probably_mic_col(Column(t, c)))
    IN SelectSeq(t.cols, IsMic)

\* step 5: df[col] = parse_mic(df[col]) for every MIC column
ParsedOk(t, mics) == \A i \in DOMAIN mics : parse_mic(Column(t, mics[i])).ok
ParseMicColumns(t, mics) ==
    [cols |-> t.cols,
     rows |-> [r \in DOMAIN t.rows |->
                 [c \in DOMAIN t.cols |->
                    IF t.cols[c] \in Range(mics)
                      THEN ParseMicCell(t.rows[r][c]).val
                      ELSE t.rows[r][c]]]]

\* step 6 left out
DropNoCountry_Keep(t) == t
\* step 6: df[df["country"].notna()]
DropNoCountry(t) ==
    LET k == ColIndex(t.cols, Col.country)
        HasCountry(row) == ~IsNA(row[k])
    IN [cols |-> t.cols, rows |-> SelectSeq(t.rows, HasCountry)]

\* step 7
IdCols(t, mics, flags) == SortNames(Range(t.cols) \ (Range(mics) \cup Range(flags)))
IdOf(t, ids, row) == [k \in DOMAIN ids |-> row[ColIndex(t.cols, ids[k])]]
\* df.melt(id_vars, value_vars): column after column, row after row
Melt(t, id_vars, value_vars) ==
    LET R == Len(t.rows) IN
    [n \in 1..(Len(value_vars) * R) |->
        LET j == ((n - 1) \div R) + 1
            r == ((n - 1) % R) + 1
        IN [id |-> IdOf(t, id_vars, t.rows[r]),
            variable |-> value_vars[j],
            value |-> t.rows[r][ColIndex(t.cols, value_vars[j])]]]
\* str.replace(r"(_i|_flag|_interpretation)$", "", regex=True)
StripFlagSuffix(c) ==
    LET hits == {x \in FLAG_SUFFIXES : EndsWith(c, x)} IN
    IF hits = {} THEN c
    ELSE DropLast(c, Len(CHOOSE x \in hits : \A y \in hits : Len(y) <= Len(x)))

\* on=["isolate_id", "drug"]
JoinKey(ids, id, drug) == <<id[ColIndex(ids, Col.isolate_id)], drug>>

\* the merge with how="inner": a MIC row without a flag row is dropped
MergeLeft_Inner(ids, mic_long, flag_long) ==
    LET Joined(m) ==
            LET Match(f) == JoinKey(ids, f.id, StripFlagSuffix(f.variable))
                              = JoinKey(ids, m.id, m.variable)
                hits == SelectSeq(flag_long, Match)
            IN [i \in DOMAIN hits |->
                  [id |-> m.id, drug |-> m.variable,
                   mic_value |-> m.value, sir_flag |-> hits[i].value]]
    IN Flatten([n \in DOMAIN mic_long |-> Joined(mic_long[n])])
\* mic_long.merge(flag_long[["isolate_id","drug","sir_flag"]],
\*                on=["isolate_id","drug"], how="left")
MergeLeft(ids, mic_long, flag_long) ==
    LET Joined(m) ==
            LET Match(f) == JoinKey(ids, f.id, StripFlagSuffix(f.variable))
                              = JoinKey(ids, m.id, m.variable)
                hits == SelectSeq(flag_long, Match)
            IN IF hits = <<>>
                 THEN << [id |-> m.id, drug |-> m.variable,
                          mic_value |-> m.value, sir_flag |-> NA] >>
                 ELSE [i \in DOMAIN hits |->
                         [id |-> m.id, drug |-> m.variable,
                          mic_value |-> m.value, sir_flag |-> hits[i].value]]
    IN Flatten([n \in DOMAIN mic_long |-> Joined(mic_long[n])])

\* step 8: astype("string").str.strip().str.upper()
FlagToken(x) == IF IsNA(x) THEN NA ELSE Str(Upper(Strip(ToText(x), Whitespace)))
\* step 8 without the .map(FLAG_MAP): the token is kept as it is
MapFlag_Unmapped(x) == x
\* .map(FLAG_MAP)
MapFlag(x) ==
    IF IsNA(x) \/ x.s \notin DOMAIN FLAG_MAP THEN NA ELSE FLAG_MAP[x.s]
\* step 8 with the check made on the mapped flags: nothing is left to reject
UnknownFlags_AfterMap(long) ==
    {MapFlag(FlagToken(long[i].sir_flag)).s :
        i \in {j \in DOMAIN long : ~IsNA(MapFlag(FlagToken(long[j].sir_flag)))}}
      \ {<<"S">>, <<"I">>, <<"R">>}
\* unknown = set(df_long["sir_flag"].dropna().unique()) - set(FLAG_MAP)
UnknownFlags(long) ==
    {FlagToken(long[i].sir_flag).s :
        i \in {j \in DOMAIN long : ~IsNA(long[j].sir_flag)}} \ DOMAIN FLAG_MAP

\* step 9: the label of a flag with S read as resistant.
ResistantLabel_Swapped(flag) ==
    IF flag = Str(<<"S">>) THEN [k |-> "int", v |-> 1]
    ELSE IF flag = Str(<<"R">>) THEN [k |-> "int", v |-> 0]
    ELSE NA
\* step 9: .map({"R": 1, "S": 0})
ResistantLabel(flag) ==
    IF flag = Str(<<"R">>) THEN [k |-> "int", v |-> 1]
    ELSE IF flag = Str(<<"S">>) THEN [k |-> "int", v |-> 0]
    ELSE NA

\* step 10: groupby(["drug","year"]).apply(iqr_trim), assigned back by index:
\* a row whose year is missing belongs to no group and gets a missing MIC
TrimOutliers(ids, long) ==
    LET y == ColIndex(ids, Col.year)
        SameGroup(i, j) ==
            /\ long[i].drug = long[j].drug
            /\ long[i].id[y] = long[j].id[y]
        Trimmed(i) ==
            LET members == SelectSeq([j \in DOMAIN long |-> j],
                                     LAMBDA j : SameGroup(i, j))
                group == [k \in DOMAIN members |-> long[members[k]].mic_value]
                pos == CHOOSE k \in DOMAIN members : members[k] = i
            IN iqr_trim(group)[pos]
    IN [i \in DOMAIN long |->
          [long[i] EXCEPT !.mic_value =
              IF IsNA(long[i].id[y]) THEN NA ELSE Trimmed(i)]]
\* dropna(subset=["mic_value"])
HasMic(row) == ~IsNA(row.mic_value)

\* ------------------------------------------------------------------------
\* The sheets clean_atlas is run on
\* ------------------------------------------------------------------------
\* raw column headers of the sample sheets
Hdr ==
    [
     isolate_id |-> <<"i","s","o","l","a","t","e","_","i","d">>,
     pathogen |-> <<"p","a","t","h","o","g","e","n">>,
     country |-> <<"c","o","u","n","t","r","y">>,
     year |-> <<"y","e","a","r">>,
     drug_a |-> <<"d","r","u","g","_","a">>,
     drug_a_i |-> <<"d","r","u","g","_","a","_","i">>,
     drug_b |-> <<"d","r","u","g","_","b">>,
     drug_a_flag |-> <<"d","r","u","g","_","a","_","f","l","a","g">>,
     drug_c_flag |-> <<"d","r","u","g","_","c","_","f","l","a","g">>,
     drug_a_interpretation |-> <<"d","r","u","g","_","a","_","i","n","t","e","r","p","r","e","t","a","t","i","o","n">>,
     UID |-> <<"U","I","D">>,
     Species |-> <<"S","p","e","c","i","e","s">>,
     Country |-> <<"U00A0","C","o","u","n","t","r","y">>,
     YearCollected |-> <<"Y","e","a","r","C","o","l","l","e","c","t","e","d">>,
     DrugA |-> <<"D","r","u","g"," ","A">>,
     DrugAFlag |-> <<"D","r","u","g"," ","A"," ","(","I",")">>,
     DrugBMic |-> <<"D","r","u","g"," ","B"," ","M","I","C">> ]

RECURSIVE Product(_)
Product(domains) ==
    IF domains = <<>> THEN {<<>>}
    ELSE {<<x>> \o rest : x \in Head(domains), rest \in Product(Tail(domains))}

IsolateIds == {Num(1000), Num(2000)}
OneYear == {Num(2020000)}
TwoYears == {Num(2020000), Num(2021000)}

\* A family of sheets: the raw headers and, per column, the values a cell
\* of that column takes.
\* the 2-row scenario of the end-to-end test: no pathogen column
SheetPaired ==
    [headers |-> <<Hdr.isolate_id, Hdr.country, Hdr.year, Hdr.drug_a, Hdr.drug_a_i>>,
     domains |-> <<IsolateIds, {Str(Txt.US)}, TwoYears,
                   {Num(2000), Num(16000)}, {Str(Txt.S), Str(Txt.Resistant)}>>]
\* vendor headers that need normalising, flags in every spelling
SheetVendor ==
    [headers |-> <<Hdr.UID, Hdr.Species, Hdr.Country, Hdr.YearCollected,
                   Hdr.DrugA, Hdr.DrugAFlag>>,
     domains |-> <<IsolateIds, {Str(Txt.Ecoli)}, {Str(Txt.US), NA}, OneYear,
                   {Num(2000)},
                   {Str(Txt.S), Str(Txt.PaddedR), Str(Txt.I), Str(Txt.MAYBE)}>>]
\* a MIC column of mixed content and no flag column
SheetNoFlag ==
    [headers |-> <<Hdr.isolate_id, Hdr.pathogen, Hdr.country, Hdr.year, Hdr.drug_a>>,
     domains |-> <<IsolateIds, {Str(Txt.Ecoli)}, {Str(Txt.US)}, OneYear,
                   {Num(2000), Str(Txt.Le16), Str(Txt.Abc), Str(Txt.Dot), NA}>>]
\* a flag column and no MIC column
SheetNoMic ==
    [headers |-> <<Hdr.isolate_id, Hdr.pathogen, Hdr.country, Hdr.year, Hdr.drug_a_flag>>,
     domains |-> <<IsolateIds, {Str(Txt.Ecoli)}, {Str(Txt.US)}, OneYear,
                   {Str(Txt.S), Str(Txt.NS)}>>]
\* a flag column whose drug has no MIC column
SheetOrphanFlag ==
    [headers |-> <<Hdr.isolate_id, Hdr.pathogen, Hdr.country, Hdr.year,
                   Hdr.drug_a, Hdr.drug_c_flag>>,
     domains |-> <<IsolateIds, {Str(Txt.Ecoli)}, {Str(Txt.US)}, OneYear,
                   {Num(2000)}, {Str(Txt.S), Str(Txt.MAYBE), NA}>>]
\* two MIC columns, one of them with a flag column
SheetTwoDrugs ==
    [headers |-> <<Hdr.isolate_id, Hdr.pathogen, Hdr.country, Hdr.year,
                   Hdr.drug_a, Hdr.drug_b, Hdr.drug_a_interpretation>>,
     domains |-> <<IsolateIds, {Str(Txt.Ecoli)}, {Str(Txt.US)}, OneYear,
                   {Num(2000)}, {Num(4000)},
                   {Str(Txt.NS), Str(Txt.U), Str(Txt.Susceptible),
                    Str(Txt.Intermediate)}>>]
\* one MIC column, no flag column, no pathogen column
SheetBare ==
    [headers |-> <<Hdr.isolate_id, Hdr.country, Hdr.year, Hdr.drug_a>>,
     domains |-> <<IsolateIds, {Str(Txt.US)}, OneYear, {Num(2000), Num(16000)}>>]
\* two candidate columns of the same kind of content, one named "... MIC"
SheetMicNamed ==
    [headers |-> <<Hdr.isolate_id, Hdr.pathogen, Hdr.country, Hdr.year,
                   Hdr.drug_a, Hdr.DrugBMic>>,
     domains |-> <<{Num(1000)}, {Str(Txt.Ecoli)}, {Str(Txt.US)}, OneYear,
                   {Num(2000), Str(Txt.Abc), NA},
                   {Num(2000), Str(Txt.Abc), NA}>>]
\* a year cell left empty
SheetMissingYear ==
    [headers |-> <<Hdr.isolate_id, Hdr.pathogen, Hdr.country, Hdr.year, Hdr.drug_a>>,
     domains |-> <<{Num(1000)}, {Str(Txt.Ecoli)}, {Str(Txt.US)},
                   {Num(2020000), NA}, {Num(2000), Num(16000)}>>]
SheetFamilies ==
    {SheetPaired, SheetVendor, SheetNoFlag, SheetNoMic, SheetOrphanFlag,
     SheetTwoDrugs, SheetBare, SheetMicNamed, SheetMissingYear}

\* ------------------------------------------------------------------------
\* clean_atlas, stage by stage
\* ------------------------------------------------------------------------
Init ==
    /\ \E f \in SheetFamilies :
         \E rws \in SeqsUpTo(Product(f.domains), MaxRows) :
            xlsx = [cols |-> f.headers, rows |-> rws]
    /\ df = [cols |-> <<>>, rows |-> <<>>]
    /\ flag_cols = <<>> /\ mic_cols = <<>> /\ id_cols = <<>>
    /\ df_long = <<>> /\ ret = <<>> /\ unknown = {} /\ stages = <<>>
    /\ pc = "start" /\ err = NoError
    /\ SnakeIdle /\ BpIdle /\ HelperIdle

Raise(e) ==
    /\ pc' = "raised" /\ err' = e
    /\ UNCHANGED <<xlsx, df, flag_cols, mic_cols, id_cols, df_long, ret, unknown,
                   stages>>

\* df, sheet = load_first_sheet(xlsx)
load_first_sheet ==
    /\ pc = "start"
    /\ df' = xlsx
    /\ pc' = "loaded"
    /\ UNCHANGED <<xlsx, flag_cols, mic_cols, id_cols, df_long, ret, unknown,
                   stages, err>>
    /\ UNCHANGED <<snakeVars, bpVars, helperVars, augVars>>

\* the table after steps 1-3
Normalised(t) ==
    [cols |-> [i \in DOMAIN t.cols |-> KeyFieldName(ascii_snake(t.cols[i]))],
     rows |-> drop_duplicates(t.rows)]
\* step 4 without the check of the MIC columns
NoMicColumns_Unchecked(mics) == FALSE
\* if not mic_cols
NoMicColumns(mics) == mics = <<>>

\* steps 1-3: header normalisation, key-field names, exact duplicates
NormaliseHeaders ==
    /\ pc = "loaded"
    /\ df' = Normalised(df)
    /\ stages' = Append(stages, "normalise")
    /\ pc' = "normalised"
    /\ UNCHANGED <<xlsx, flag_cols, mic_cols, id_cols, df_long, ret, unknown, err>>
    /\ UNCHANGED <<snakeVars, bpVars, helperVars, augVars>>

\* step 4: flag and MIC columns; no MIC column is an error
ClassifyColumns ==
    /\ pc = "normalised"
    /\ IF NoMicColumns(MicCols(df))
         THEN Raise("ValueError: No MIC columns detected")
         ELSE /\ flag_cols' = FlagCols(df)
              /\ mic_cols' = MicCols(df)
              /\ stages' = Append(stages, "classify")
              /\ pc' = "classified"
              /\ UNCHANGED <<xlsx, df, id_cols, df_long, ret, unknown, err>>
    /\ UNCHANGED <<snakeVars, bpVars, helperVars, augVars>>

\* steps 5-6: parse the MIC columns, drop the rows without country
ParseAndFilter ==
    /\ pc = "classified"
    /\ IF ~ParsedOk(df, mic_cols)
         THEN Raise("ValueError: could not convert string to float")
         ELSE IF ~HasCol(df.cols, Col.country)
         THEN Raise("KeyError: country")
         ELSE /\ df' = DropNoCountry(ParseMicColumns(df, mic_cols))
              /\ stages' = Append(stages, "parse")
              /\ pc' = "filtered"
              /\ UNCHANGED <<xlsx, flag_cols, mic_cols, id_cols, df_long, ret, unknown, err>>
    /\ UNCHANGED <<snakeVars, bpVars, helperVars, augVars>>

\* step 7: melt the MIC columns, melt the flag columns, left-join
Reshape ==
    /\ pc = "filtered"
    /\ LET ids == IdCols(df, mic_cols, flag_cols) IN
       IF ~HasCol(ids, Col.isolate_id)
         THEN /\ pc' = "raised" /\ err' = "KeyError: isolate_id"
              /\ id_cols' = ids
              /\ UNCHANGED <<xlsx, df, flag_cols, mic_cols, df_long, ret, unknown,
                             stages>>
         ELSE /\ id_cols' = ids
              /\ df_long' = MergeLeft(ids, Melt(df, ids, mic_cols),
                                      Melt(df, ids, flag_cols))
              /\ stages' = Append(stages, "reshape")
              /\ pc' = "long"
              /\ UNCHANGED <<xlsx, df, flag_cols, mic_cols, ret, unknown, err>>
    /\ UNCHANGED <<snakeVars, bpVars, helperVars, augVars>>

\* step 8: normalise and validate the flags, then map them
ValidateFlags ==
    /\ pc = "long"
    /\ IF UnknownFlags(df_long) # {}
         THEN /\ pc' = "raised" /\ err' = "ValueError: Unknown flags"
              /\ unknown' = UnknownFlags(df_long)
              /\ UNCHANGED <<xlsx, df, flag_cols, mic_cols, id_cols, df_long, ret,
                             stages>>
         ELSE /\ df_long' = [i \in DOMAIN df_long |->
                    [df_long[i] EXCEPT !.sir_flag = MapFlag(FlagToken(@))]]
              /\ stages' = Append(stages, "validate")
              /\ pc' = "flagged"
              /\ UNCHANGED <<xlsx, df, flag_cols, mic_cols, id_cols, ret, unknown, err>>
    /\ UNCHANGED <<snakeVars, bpVars, helperVars, augVars>>

\* steps 9-10: the binary label, the outlier filter, the rows without MIC
LabelAndTrim ==
    /\ pc = "flagged"
    /\ IF ~HasCol(id_cols, Col.year)
         THEN Raise("KeyError: year")
         ELSE /\ df_long' =
                   LET labelled == [i \in DOMAIN df_long |->
                           [id |-> df_long[i].id, drug |-> df_long[i].drug,
                            mic_value |-> df_long[i].mic_value,
                            sir_flag |-> df_long[i].sir_flag,
                            resistant |-> ResistantLabel(df_long[i].sir_flag)]]
                   IN SelectSeq(TrimOutliers(id_cols, labelled), HasMic)
              /\ stages' = Append(stages, "outliers")
              /\ pc' = "trimmed"
              /\ UNCHANGED <<xlsx, df, flag_cols, mic_cols, id_cols, ret, unknown, err>>
    /\ UNCHANGED <<snakeVars, bpVars, helperVars, augVars>>

\* step 11: the final dtypes need the columns pathogen and country; return
Finalize ==
    /\ pc = "trimmed"
    /\ IF ~HasCol(id_cols, Col.pathogen)
         THEN Raise("KeyError: pathogen")
         ELSE IF ~HasCol(id_cols, Col.country)
         THEN Raise("KeyError: country")
         ELSE /\ ret' = df_long
              /\ stages' = Append(stages, "final")
              /\ pc' = "returned"
              /\ UNCHANGED <<xlsx, df, flag_cols, mic_cols, id_cols, df_long, unknown, err>>
    /\ UNCHANGED <<snakeVars, bpVars, helperVars, augVars>>

Next ==
    \/ load_first_sheet
    \/ NormaliseHeaders \/ ClassifyColumns \/ ParseAndFilter \/ Reshape
    \/ ValidateFlags \/ LabelAndTrim \/ Finalize
Spec == Init /\ [][Next]_vars

\* ------------------------------------------------------------------------
\* Properties of clean_atlas
\* ------------------------------------------------------------------------
\* the stages of clean_atlas that have run, by the position reached
Classified == pc \notin {"start", "loaded", "normalised"}
Reshaped == Len(stages) >= 4
Validated == Reshaped /\ pc # "long"
Missing(x) == x = NA
Label(n) == [k |-> "int", v |-> n]

\* the two melts and the joined table of step 7, from the filtered sheet
MicMelt == Melt(df, id_cols, mic_cols)
FlagMelt == Melt(df, id_cols, flag_cols)
JoinedTable == MergeLeft(id_cols, MicMelt, FlagMelt)

\* (isolate_id, drug, year) of a melted row
IdentityKey(m, drug) ==
    <<m.id[ColIndex(id_cols, Col.isolate_id)], drug,
      m.id[ColIndex(id_cols, Col.year)]>>
IdentityKeyUnique ==
    /\ \A i, j \in DOMAIN MicMelt :
          i # j => IdentityKey(MicMelt[i], MicMelt[i].variable)
                     # IdentityKey(MicMelt[j], MicMelt[j].variable)
    /\ \A i, j \in DOMAIN FlagMelt :
          i # j => IdentityKey(FlagMelt[i], StripFlagSuffix(FlagMelt[i].variable))
                     # IdentityKey(FlagMelt[j], StripFlagSuffix(FlagMelt[j].variable))
IsolateDrugUnique ==
    \A i, j \in DOMAIN FlagMelt :
       i # j => JoinKey(id_cols, FlagMelt[i].id, StripFlagSuffix(FlagMelt[i].variable))
                  # JoinKey(id_cols, FlagMelt[j].id, StripFlagSuffix(FlagMelt[j].variable))

\* C1: when (isolate_id, drug, year) is unique within the MIC melt and within
\* the flag melt, the table produced by the reshape step has exactly R x K
\* rows, R the rows surviving de-duplication and the country filter, K the
\* number of MIC columns.
C1_ReshapeRowCount ==
    (pc = "long" /\ IdentityKeyUnique)
        => Len(df_long) = Len(df.rows) * Len(mic_cols)

\* The join of step 7 is on (isolate_id, drug): when that pair is unique in
\* the flag melt the reshaped table has R x K rows.
ReshapeRowCountOnJoinKey ==
    (pc = "long" /\ IsolateDrugUnique)
        => Len(df_long) = Len(df.rows) * Len(mic_cols)

\* C2: in every row of the returned table, resistant = 1 iff sir_flag = R,
\* resistant = 0 iff sir_flag = S, and resistant is missing iff sir_flag is
\* I or missing.
C2_ResistantMatchesFlag ==
    pc = "returned" =>
        \A i \in DOMAIN ret :
            /\ ret[i].resistant = Label(1) <=> ret[i].sir_flag = Str(<<"R">>)
            /\ ret[i].resistant = Label(0) <=> ret[i].sir_flag = Str(<<"S">>)
            /\ Missing(ret[i].resistant)
                 <=> (ret[i].sir_flag = Str(<<"I">>) \/ Missing(ret[i].sir_flag))

\* a returned table with a resistant, a susceptible and an unlabelled row
C2_Witness ==
    /\ pc = "returned"
    /\ \E i \in DOMAIN ret :
          ret[i].sir_flag = Str(<<"R">>) /\ ret[i].resistant = Label(1)
    /\ \E i \in DOMAIN ret :
          Missing(ret[i].resistant)
            /\ (ret[i].sir_flag = Str(<<"I">>) \/ Missing(ret[i].sir_flag))

\* the tokens of the synonym table
KnownTokens ==
    {<<"S">>, <<"S","U","S","C","E","P","T","I","B","L","E">>,
     <<"R">>, <<"R","E","S","I","S","T","A","N","T">>, <<"N","S">>,
     <<"I">>, <<"I","N","T","E","R","M","E","D","I","A","T","E">>, <<"U">>}
Trimmed(x) == Upper(Strip(ToText(x), Whitespace))
\* the unknown tokens among all the flag columns of the workbook
WorkbookUnknown ==
    LET t == Normalised(xlsx)
        flags == FlagCols(t)
    IN {Trimmed(t.rows[r][ColIndex(t.cols, flags[c])]) :
           r \in DOMAIN t.rows, c \in DOMAIN flags} \ (KnownTokens \cup {Trimmed(NA)})
\* the unknown tokens among the flags of the joined table
JoinedUnknown ==
    {Trimmed(JoinedTable[i].sir_flag) :
        i \in {j \in DOMAIN JoinedTable : ~Missing(JoinedTable[j].sir_flag)}}
      \ KnownTokens

\* C3: if any value of any flag column of the workbook, trimmed and
\* uppercased, is not a token of the synonym table, clean_atlas aborts with
\* an error naming the offending tokens and returns no table.
C3_AnyUnknownFlagAborts ==
    (WorkbookUnknown # {} /\ pc \in {"raised", "returned"})
        => /\ pc = "raised"
           /\ err = "ValueError: Unknown flags"
           /\ WorkbookUnknown \subseteq unknown
           /\ ret = <<>>

\* C3 as the code has it: if any flag of the joined table (a flag column
\* paired with a MIC column, a row that survived the country filter),
\* trimmed and uppercased, is not a token of the synonym table, clean_atlas
\* raises the error naming exactly those tokens and returns no table.
C3_JoinedUnknownFlagAborts ==
    (Validated /\ JoinedUnknown # {})
        => /\ pc = "raised"
           /\ err = "ValueError: Unknown flags"
           /\ unknown = JoinedUnknown
           /\ ret = <<>>

\* two rows of the vendor sheet, one of them flagged MAYBE: aborted
C3_Witness ==
    /\ pc = "raised" /\ Validated
    /\ unknown = {Txt.MAYBE}
    /\ Len(df.rows) = 2

\* C4: when classification yields no MIC column, clean_atlas aborts with an
\* error before any MIC parsing, reshape, flag validation or outlier
\* filtering happens, and returns no table.
C4_NoMicColumnsAborts ==
    (Classified /\ MicCols(Normalised(xlsx)) = <<>>)
        => /\ pc = "raised"
           /\ err = "ValueError: No MIC columns detected"
           /\ stages = <<"normalise">>
           /\ df = Normalised(xlsx)
           /\ df_long = <<>> /\ unknown = {} /\ ret = <<>>

\* a two-row sheet with a flag column and no MIC column: aborted
C4_Witness ==
    /\ pc = "raised"
    /\ MicCols(df) = <<>>
    /\ FlagCols(df) # <<>>
    /\ Len(df.rows) = 2

\* C5: when the workbook has at least one MIC column but no flag column,
\* clean_atlas does not fail; it returns the long table with sir_flag and
\* resistant missing in every row.
C5_NoFlagColumnTolerated ==
    (Classified /\ mic_cols # <<>> /\ flag_cols = <<>>)
        => /\ pc # "raised"
           /\ pc = "returned" =>
                \A i \in DOMAIN ret :
                    Missing(ret[i].sir_flag) /\ Missing(ret[i].resistant)

\* Without a flag column no flag and no label is ever set, in the long table
\* and in the returned table.
NoFlagColumnAllMissing ==
    (Reshaped /\ flag_cols = <<>>)
        => /\ \A i \in DOMAIN df_long : Missing(df_long[i].sir_flag)
           /\ pc = "returned" =>
                \A i \in DOMAIN ret :
                    Missing(ret[i].sir_flag) /\ Missing(ret[i].resistant)

\* the sheet [isolate_id, country, year, drug_a, drug_a_i] with
\* drug_a = [2, 16] and drug_a_i = ["S", "Resistant"]
EndToEndSheet ==
    /\ xlsx.cols = <<Hdr.isolate_id, Hdr.country, Hdr.year, Hdr.drug_a, Hdr.drug_a_i>>
    /\ Len(xlsx.rows) = 2
    /\ xlsx.rows[1][4] = Num(2000) /\ xlsx.rows[1][5] = Str(Txt.S)
    /\ xlsx.rows[2][4] = Num(16000) /\ xlsx.rows[2][5] = Str(Txt.Resistant)

\* C6: on that sheet clean_atlas completes and yields exactly the rows
\* (drug_a, 2.0, S, 0) and (drug_a, 16.0, R, 1).
C6_EndToEnd ==
    EndToEndSheet =>
        /\ pc # "raised"
        /\ pc = "returned" =>
             /\ Len(ret) = 2
             /\ ret[1].drug = Hdr.drug_a /\ ret[1].mic_value = Num(2000)
             /\ ret[1].sir_flag = Str(<<"S">>) /\ ret[1].resistant = Label(0)
             /\ ret[2].drug = Hdr.drug_a /\ ret[2].mic_value = Num(16000)
             /\ ret[2].sir_flag = Str(<<"R">>) /\ ret[2].resistant = Label(1)

\* On that sheet the flags are mapped and labelled as stated before the
\* final dtype step, when the two isolates differ.
EndToEndBeforeDtypes ==
    (EndToEndSheet /\ pc = "trimmed" /\ xlsx.rows[1][1] # xlsx.rows[2][1]) =>
        /\ Len(df_long) = 2
        /\ df_long[1].drug = Hdr.drug_a /\ df_long[1].mic_value = Num(2000)
        /\ df_long[1].sir_flag = Str(<<"S">>) /\ df_long[1].resistant = Label(0)
        /\ df_long[2].drug = Hdr.drug_a /\ df_long[2].mic_value = Num(16000)
        /\ df_long[2].sir_flag = Str(<<"R">>) /\ df_long[2].resistant = Label(1)


\* ------------------------------------------------------------------------
\* Properties of the helpers of atlas_clean.py
\* ------------------------------------------------------------------------
\* a token of lowercase ASCII letters, digits and single inner underscores
SnakeToken(s) ==
    /\ \A i \in DOMAIN s : s[i] \in LowerSet \cup Digits \cup {"_"}
    /\ \A i \in DOMAIN s : i < Len(s) => ~(s[i] = "_" /\ s[i + 1] = "_")
    /\ s # <<>> => (s[1] # "_" /\ s[Len(s)] # "_")

\* C11: for every input text ascii_snake returns a (possibly empty) token
\* made only of lowercase ASCII letters, digits and underscores, with no two
\* consecutive underscores and no leading or trailing underscore.
C11_SnakeToken == hpc \in {"once", "twice"} => SnakeToken(once)

\* a header that starts with a separator and holds an upper-case letter,
\* normalised to a non-empty token
C11_Witness ==
    /\ hpc = "once"
    /\ Len(col) = MaxHeaderLen
    /\ ~IsAlnum(col[1])
    /\ \E i \in DOMAIN col : col[i] \in UpperSet
    /\ once # <<>>

\* reshape_wide.py, detect_numeric_mic_cols: the columns of a raw sheet that
\* are no context column, no "_i" column, and numeric in 70% of their rows
ContextKeys ==
    {<<"i","s","o","l","a","t","e"," ","i","d">>, <<"i","s","o","l","a","t","e">>,
     <<"a","g","e">>, <<"s","p","e","c","i","e","s">>,
     <<"o","r","g","a","n","i","s","m">>, <<"c","o","u","n","t","r","y">>,
     <<"y","e","a","r">>}
\* pd.to_numeric(x, errors="coerce") is a number
ToNumericOk(x) == IsNum(x) \/ (IsStr(x) /\ ParseFloat(x.s).ok)
detect_numeric_mic_cols(t) ==
    LET key(c) == Strip(Lower(c), Whitespace)
        numeric(c) == Cardinality({r \in DOMAIN t.rows :
                                     ToNumericOk(t.rows[r][ColIndex(t.cols, c)])})
        IsMic(c) ==
            /\ key(c) \notin ContextKeys
            /\ ~EndsWith(key(c), <<"_", "i">>)
            /\ t.rows # <<>>
            /\ 10 * numeric(c) >= 7 * Len(t.rows)
    IN SelectSeq(t.cols, IsMic)

\* the header holds the substring "mic"
NamesMic(c) ==
    \E i \in 1..(Len(c) - 2) : SubSeq(c, i, i + 2) = <<"m", "i", "c">>
\* neither in the identity allow-list nor ending in a flag suffix
Candidate(c) == c \notin META_COLS /\ ~IsFlagCol(c)
\* classification has just run, on the table df still holds
JustClassified ==
    pc = "classified" \/ (pc = "raised" /\ stages = <<"normalise">>)

\* C12: two columns with identical values whose normalised headers are
\* neither in the identity allow-list nor end in a flag suffix get the same
\* MIC / non-MIC decision whether or not the header holds "mic"; in
\* clean_atlas and in detect_numeric_mic_cols of reshape_wide.py.
C12_ContentDriven ==
    JustClassified =>
        \A i, j \in DOMAIN df.cols :
            ( /\ Candidate(df.cols[i]) /\ Candidate(df.cols[j])
              /\ NamesMic(df.cols[i]) /\ ~NamesMic(df.cols[j])
              /\ Column(df, df.cols[i]) = Column(df, df.cols[j]) )
            => /\ df.cols[i] \in Range(mic_cols) <=> df.cols[j] \in Range(mic_cols)
               /\ xlsx.cols[i] \in Range(detect_numeric_mic_cols(xlsx))
                    <=> xlsx.cols[j] \in Range(detect_numeric_mic_cols(xlsx))

\* a sheet whose columns drug_a and drug_b_mic hold the same two values, a
\* number and a missing cell, both classified as MIC columns
C12_Witness ==
    /\ pc = "classified"
    /\ Len(df.rows) = 2
    /\ HasCol(df.cols, <<"d","r","u","g","_","b","_","m","i","c">>)
    /\ Column(df, Hdr.drug_a) = Column(df, <<"d","r","u","g","_","b","_","m","i","c">>)
    /\ \E r \in DOMAIN df.rows : IsNA(Column(df, Hdr.drug_a)[r])
    /\ mic_cols = <<Hdr.drug_a, <<"d","r","u","g","_","b","_","m","i","c">>>>

\* ------------------------------------------------------------------------
\* One call of parse_mic on a column, or of iqr_trim on a group
\* ------------------------------------------------------------------------
MaxSeries == 3
MaxGroup == 5
\* the cells of a column of MIC values as sheets hold them
MicCells ==
    {Num(2000), NA,
     Str(<<"3", "2">>), Str(<<">", "3", "2">>), Str(<<"<", "=", "0", ".", "5">>),
     Str(<<"0", ",", "2", "5">>), Str(<<">", "3", "2", " ", "m", "g", "/", "L">>),
     Str(Txt.Abc), Str(Txt.Dot), Str(<<"1", ".", "2", ".", "3">>)}
\* the MIC values of a (drug, year) group
GroupValues == {Num(1000), Num(2000), Num(3000), Num(100000), NA}

InitHelpers ==
    /\ \/ helperPc = "parse_mic" /\ helperIn \in SeqsUpTo(MicCells, MaxSeries)
       \/ helperPc = "iqr_trim" /\ helperIn \in SeqsUpTo(GroupValues, MaxGroup)
       \/ /\ helperPc = "add_eucast_column"
          /\ helperIn \in SeqsUpTo([mic : NarrowMics, organism : NarrowOrganisms,
                                    drug : NarrowDrugs], MaxObs)
    /\ helperOut = <<>>
    /\ vs = <<>> /\ masterAug = <<>> /\ aug = <<>> /\ augPc = "idle"
    /\ SnakeIdle /\ BpIdle /\ CleanIdle

\* parse_mic(series): the parsed column, or the ValueError of astype
CallParseMic ==
    /\ helperPc = "parse_mic"
    /\ IF parse_mic(helperIn).ok
         THEN helperOut' = parse_mic(helperIn).val /\ helperPc' = "parsed"
         ELSE helperOut' = <<>> /\ helperPc' = "ValueError"
    /\ UNCHANGED <<helperIn, snakeVars, bpVars, cleanVars, augVars>>

\* iqr_trim(group)
CallIqrTrim ==
    /\ helperPc = "iqr_trim"
    /\ helperOut' = iqr_trim(helperIn)
    /\ helperPc' = "trimmed"
    /\ UNCHANGED <<helperIn, snakeVars, bpVars, cleanVars, augVars>>

\* out = df.copy() with the copy left out: out is the object df itself
df_copy_Alias(table) == table
\* out = df.copy(): the object the name out is bound to, a new table with
\* the rows of df
df_copy(table) == "out"
\* add_eucast_column(df): helperIn is the table the caller holds under the
\* name df, helperOut the table returned. The new column is written into the
\* object out is bound to. On a table without rows out.apply(axis=1) gives
\* an empty frame, which pandas either assigns or rejects with ValueError.
CallAddEucastColumn ==
    /\ helperPc = "add_eucast_column"
    /\ LET out == df_copy("df")
           written == [i \in DOMAIN helperIn |->
                         [mic |-> helperIn[i].mic,
                          organism |-> helperIn[i].organism,
                          drug |-> helperIn[i].drug,
                          sir_eucast |-> apply_eucast(helperIn[i].mic,
                                             helperIn[i].organism,
                                             helperIn[i].drug)]]
       IN \/ /\ helperOut' = written
             /\ helperIn' = IF out = "df" THEN written ELSE helperIn
             /\ helperPc' = "column_added"
          \/ /\ helperIn = <<>>
             /\ helperPc' = "ValueError"
             /\ UNCHANGED <<helperIn, helperOut>>
    /\ UNCHANGED <<snakeVars, bpVars, cleanVars, augVars>>

NextHelpers == CallParseMic \/ CallIqrTrim \/ CallAddEucastColumn
SpecHelpers == InitHelpers /\ [][NextHelpers]_vars

\* the text of a cell holds a digit
HoldsDigit(x) == ~IsNA(x) /\ \E i \in DOMAIN ToText(x) : ToText(x)[i] \in Digits

\* C13: on every column of mixed textual/numeric MIC values parse_mic never
\* raises and returns one result per row, in the same order: a float when a
\* numeric substring can be extracted, a missing value otherwise.
C13_ParseMicTotal ==
    /\ helperPc # "ValueError"
    /\ helperPc = "parsed" =>
         /\ Len(helperOut) = Len(helperIn)
         /\ \A i \in DOMAIN helperIn :
               IF HoldsDigit(helperIn[i]) THEN IsNum(helperOut[i])
               ELSE IsNA(helperOut[i])

\* When the first run of digits and dots of every cell is one decimal number,
\* parse_mic returns it for that cell, whatever precedes or follows the run,
\* and a missing value for a cell without such a run.
ParseMicOfDecimalRuns ==
    (helperPc \in {"parsed", "ValueError"}
       /\ \A i \in DOMAIN helperIn :
             helperIn[i] \notin {Str(Txt.Dot), Str(<<"1", ".", "2", ".", "3">>)})
    => /\ helperPc = "parsed"
       /\ Len(helperOut) = Len(helperIn)
       /\ \A i \in DOMAIN helperIn :
             /\ helperIn[i] \in {Str(<<"3", "2">>), Str(<<">", "3", "2">>),
                                 Str(<<">", "3", "2", " ", "m", "g", "/", "L">>)}
                  => helperOut[i] = Num(32000)
             /\ helperIn[i] = Str(<<"<", "=", "0", ".", "5">>) => helperOut[i] = Num(500)
             /\ helperIn[i] = Str(<<"0", ",", "2", "5">>) => helperOut[i] = Num(250)
             /\ helperIn[i] = Num(2000) => helperOut[i] = Num(2000)
             /\ helperIn[i] \in {NA, Str(Txt.Abc)} => helperOut[i] = NA

\* ------------------------------------------------------------------------
\* Properties of the stages of clean_atlas
\* ------------------------------------------------------------------------
\* the category the synonym table gives a flag value
Canonical(x) ==
    IF Missing(x) THEN NA
    ELSE IF Trimmed(x) \in {<<"S">>, <<"S","U","S","C","E","P","T","I","B","L","E">>}
      THEN Str(<<"S">>)
    ELSE IF Trimmed(x) \in {<<"R">>, <<"R","E","S","I","S","T","A","N","T">>, <<"N","S">>}
      THEN Str(<<"R">>)
    ELSE IF Trimmed(x) \in {<<"I">>, <<"I","N","T","E","R","M","E","D","I","A","T","E">>}
      THEN Str(<<"I">>)
    ELSE NA
Categories == {Str(<<"S">>), Str(<<"I">>), Str(<<"R">>), NA}

\* C14: each flag value, trimmed and uppercased, is mapped S and SUSCEPTIBLE
\* to S; R, RESISTANT and NS to R; I and INTERMEDIATE to I; U and missing to
\* missing; every sir_flag of a returned table is S, I, R or missing.
C14_CanonicalFlags ==
    /\ pc = "flagged" =>
         /\ Len(df_long) = Len(JoinedTable)
         /\ \A i \in DOMAIN df_long :
               df_long[i].sir_flag = Canonical(JoinedTable[i].sir_flag)
    /\ pc = "returned" => \A i \in DOMAIN ret : ret[i].sir_flag \in Categories

\* a returned table with a flag spelled out in lower case mapped to S and
\* one mapped to I
C14_Witness ==
    /\ pc = "returned"
    /\ \E r \in DOMAIN xlsx.rows : \E c \in DOMAIN xlsx.cols :
          xlsx.rows[r][c] = Str(Txt.Susceptible)
    /\ \E i \in DOMAIN ret : ret[i].sir_flag = Str(<<"S">>)
    /\ \E i \in DOMAIN ret : ret[i].sir_flag = Str(<<"I">>)

\* the group [1, 2, 2, 3, 100]
TukeyExample == <<Num(1000), Num(2000), Num(2000), Num(3000), Num(100000)>>

\* C15: a MIC value of a group is kept if and only if it lies between
\* Q1 - 1.5 (Q3 - Q1) and Q3 + 1.5 (Q3 - Q1), bounds included; for the group
\* [1, 2, 2, 3, 100] the bounds are [0.5, 4.5], 100 is removed and 1, 2, 2, 3
\* are retained.
C15_TukeyFence ==
    helperPc = "trimmed" =>
        /\ Len(helperOut) = Len(helperIn)
        /\ \A i \in DOMAIN helperIn :
              IF /\ ~IsNA(helperIn[i])
                 /\ Fence(helperIn).lo <= 8 * helperIn[i].v
                 /\ 8 * helperIn[i].v <= Fence(helperIn).hi
                THEN helperOut[i] = helperIn[i]
                ELSE helperOut[i] = NA
        /\ helperIn = TukeyExample =>
              /\ Fence(helperIn) = [lo |-> 8 * 500, hi |-> 8 * 4500]
              /\ helperOut = <<Num(1000), Num(2000), Num(2000), Num(3000), NA>>
        \* interpolated quartiles 1 and 1.5, bounds [0.25, 2.25]
        /\ helperIn = <<Num(1000), Num(1000), Num(1000), Num(3000)>> =>
              helperOut = <<Num(1000), Num(1000), Num(1000), NA>>
        \* all values equal: the bounds collapse on the value, which is kept
        /\ helperIn = <<Num(2000), Num(2000), Num(2000)>> => helperOut = helperIn

\* the group [1, 2, 2, 3, 100] has been trimmed
C15_Witness ==
    /\ helperPc = "trimmed"
    /\ helperIn = TukeyExample
    /\ helperOut[5] = NA /\ helperOut[1] = Num(1000)

\* the country of a row of the long table
CountryOf(row) == row.id[ColIndex(id_cols, Col.country)]

\* C16: no row of the returned table has a missing country: the rows without
\* country are removed before the reshape and no later stage brings one in.
C16_CountryNotNull ==
    /\ Reshaped =>
         /\ \A r \in DOMAIN df.rows : ~Missing(df.rows[r][ColIndex(df.cols, Col.country)])
         /\ \A i \in DOMAIN df_long : ~Missing(CountryOf(df_long[i]))
    /\ pc = "returned" => \A i \in DOMAIN ret : ~Missing(CountryOf(ret[i]))

\* a sheet of two rows, one of them without country, cleaned and returned
C16_Witness ==
    /\ pc = "returned"
    /\ Len(xlsx.rows) = 2
    /\ \E r \in DOMAIN xlsx.rows : \E c \in DOMAIN xlsx.cols :
          xlsx.cols[c] = Hdr.Country /\ Missing(xlsx.rows[r][c])
    /\ Len(ret) = 1

\* the flag columns paired with a drug
PairedFlagCols(drug) == {c \in Range(flag_cols) : StripFlagSuffix(c) = drug}
\* the rows of the filtered sheet with the isolate and the year of a long row
SameIsolateYear(row) ==
    {r \in DOMAIN df.rows :
        /\ df.rows[r][ColIndex(df.cols, Col.isolate_id)]
             = row.id[ColIndex(id_cols, Col.isolate_id)]
        /\ df.rows[r][ColIndex(df.cols, Col.year)] = row.id[ColIndex(id_cols, Col.year)]}
SameIsolate(row) ==
    {r \in DOMAIN df.rows :
        df.rows[r][ColIndex(df.cols, Col.isolate_id)]
          = row.id[ColIndex(id_cols, Col.isolate_id)]}

\* C17: the two melts are joined on (isolate_id, drug, year): the sir_flag of
\* a joined row is the value that an input row of the same isolate and year
\* holds in the flag column paired with the row's drug, never the flag of a
\* row of another year.
C17_FlagOfSameRow ==
    pc = "long" =>
        \A i \in DOMAIN df_long :
            IF PairedFlagCols(df_long[i].drug) = {}
              THEN Missing(df_long[i].sir_flag)
              ELSE \E r \in SameIsolateYear(df_long[i]) :
                     \E c \in PairedFlagCols(df_long[i].drug) :
                        df_long[i].sir_flag = df.rows[r][ColIndex(df.cols, c)]

\* The join is on (isolate_id, drug): the sir_flag of a joined row is the
\* paired flag of some input row of the same isolate.
FlagOfSameIsolate ==
    pc = "long" =>
        \A i \in DOMAIN df_long :
            IF PairedFlagCols(df_long[i].drug) = {}
              THEN Missing(df_long[i].sir_flag)
              ELSE \E r \in SameIsolate(df_long[i]) :
                     \E c \in PairedFlagCols(df_long[i].drug) :
                        df_long[i].sir_flag = df.rows[r][ColIndex(df.cols, c)]

\* C18: the identity, MIC and flag column sets are pairwise disjoint and
\* cover the columns of the normalised table; a column of the identity
\* allow-list is an identity column even when its content is numeric, and a
\* column ending in a flag suffix is a flag column and never a MIC column.
C18_ColumnPartition ==
    (Reshaped \/ (pc = "raised" /\ err = "KeyError: isolate_id")) =>
        LET ids == Range(id_cols)
            mics == Range(mic_cols)
            flags == Range(flag_cols)
        IN /\ ids \cap mics = {} /\ ids \cap flags = {} /\ mics \cap flags = {}
           /\ ids \cup mics \cup flags = Range(df.cols)
           /\ \A c \in Range(df.cols) :
                 /\ c \in META_COLS => c \in ids
                 /\ IsFlagCol(c) => (c \in flags /\ c \notin mics)

\* a sheet with numeric year and isolate_id, two MIC columns and a flag
\* column, reshaped
C18_Witness ==
    /\ Reshaped
    /\ Len(mic_cols) = 2 /\ Len(flag_cols) = 1
    /\ Len(df.rows) = 2
    /\ is_numeric_dtype(Column(df, Col.year))
    /\ Col.year \in Range(id_cols)

\* the flag columns whose stripped name is a MIC column, and the others
PairedFlags == SelectSeq(flag_cols, LAMBDA c : StripFlagSuffix(c) \in Range(mic_cols))
OrphanFlags == {c \in Range(flag_cols) : StripFlagSuffix(c) \notin Range(mic_cols)}

\* C19: the join of step 7 is a left join from the MIC side: every
\* (row, drug) pair of the MIC melt is in the joined table, its sir_flag
\* missing when no flag column pairs with the drug; a flag column that
\* pairs with no MIC column adds no row and no value (the joined table is
\* the one obtained from the paired flag columns alone).
C19_LeftJoinFromMic ==
    pc = "long" =>
        /\ \A n \in DOMAIN MicMelt :
              \E i \in DOMAIN df_long :
                 /\ df_long[i].id = MicMelt[n].id
                 /\ df_long[i].drug = MicMelt[n].variable
                 /\ df_long[i].mic_value = MicMelt[n].value
                 /\ PairedFlagCols(MicMelt[n].variable) = {}
                      => Missing(df_long[i].sir_flag)
        /\ \A i \in DOMAIN df_long :
              /\ df_long[i].drug \in Range(mic_cols)
              /\ PairedFlagCols(df_long[i].drug) = {} => Missing(df_long[i].sir_flag)
        /\ df_long = MergeLeft(id_cols, MicMelt, Melt(df, id_cols, PairedFlags))

\* a joined table from a sheet whose only flag column pairs with no MIC
\* column and holds a value
C19_Witness ==
    /\ pc = "long"
    /\ Len(df_long) = 2
    /\ OrphanFlags # {}
    /\ \E c \in OrphanFlags : \E r \in DOMAIN df.rows :
          ~Missing(df.rows[r][ColIndex(df.cols, c)])
    /\ \A i \in DOMAIN df_long : Missing(df_long[i].sir_flag)

\* the outlier stage has run
OutliersDone == Len(stages) >= 6
YearOf(row) == row.id[ColIndex(id_cols, Col.year)]
\* the MIC values of the (drug, year) group of a joined row
GroupMics(row) ==
    LET members == SelectSeq(JoinedTable,
                       LAMBDA m : m.drug = row.drug /\ YearOf(m) = YearOf(row))
    IN [k \in DOMAIN members |-> members[k].mic_value]
InsideFence(row) ==
    /\ ~Missing(row.mic_value)
    /\ Fence(GroupMics(row)).lo <= 8 * row.mic_value.v
    /\ 8 * row.mic_value.v <= Fence(GroupMics(row)).hi
Survives(row) ==
    \E i \in DOMAIN df_long :
       /\ df_long[i].id = row.id
       /\ df_long[i].drug = row.drug
       /\ df_long[i].mic_value = row.mic_value

\* C20: the outlier stage removes a row only if its MIC value is missing or
\* outside the Tukey fence of its (drug, year) group: every joined row with
\* a MIC inside the fence of its group is in the table after the stage, and
\* every row of that table, and of the returned table, has a MIC value.
C20_OnlyOutliersRemoved ==
    OutliersDone =>
        /\ \A j \in DOMAIN JoinedTable :
              InsideFence(JoinedTable[j]) => Survives(JoinedTable[j])
        /\ \A i \in DOMAIN df_long : ~Missing(df_long[i].mic_value)
        /\ pc = "returned" => \A i \in DOMAIN ret : ~Missing(ret[i].mic_value)

\* What holds of the outlier stage: a joined row with a year and a MIC
\* inside the fence of its group is kept, and every kept row has a MIC
\* value; a joined row without a year is removed whatever its MIC.
OutlierStageWithinYears ==
    OutliersDone =>
        /\ \A j \in DOMAIN JoinedTable :
              IF Missing(YearOf(JoinedTable[j]))
                THEN ~Survives(JoinedTable[j])
                ELSE InsideFence(JoinedTable[j]) => Survives(JoinedTable[j])
        /\ \A i \in DOMAIN df_long : ~Missing(df_long[i].mic_value)
        /\ pc = "returned" => \A i \in DOMAIN ret : ~Missing(ret[i].mic_value)


\* ------------------------------------------------------------------------
\* augment_with_vendor_sir.py: steps 3 and 5 of the script, on the vendor
\* table vs as concatenated from the raw files and the master table
\* ------------------------------------------------------------------------
MaxVendor == 2

\* the values of a row under MERGE_KEYS
MERGE_KEYS(row) == <<row.collection_number, row.drug, row.year>>

\* vs.drop_duplicates(subset=MERGE_KEYS): the first row of each key is kept;
\* two missing values count as equal
DropDuplicates(t) ==
    LET First(i) == \A j \in 1..(i - 1) : MERGE_KEYS(t[j]) # MERGE_KEYS(t[i])
        kept == SelectSeq([i \in DOMAIN t |-> i], First)
    IN [n \in DOMAIN kept |-> t[kept[n]]]

\* pd.to_numeric(year, errors="coerce").round().astype("Int64").astype(str):
\* text that is no number and missing values give "<NA>", halves round to even
YearText(x) ==
    LET parsed == IF IsNum(x) THEN [ok |-> TRUE, v |-> x.v]
                  ELSE IF IsStr(x) THEN ParseFloat(x.s)
                  ELSE [ok |-> FALSE, v |-> 0]
        whole == parsed.v \div 1000
        frac == parsed.v % 1000
        rounded == IF frac < 500 THEN whole
                   ELSE IF frac > 500 THEN whole + 1
                   ELSE IF whole % 2 = 0 THEN whole ELSE whole + 1
    IN IF parsed.ok THEN Str(IntDigits(rounded)) ELSE Str(<<"<","N","A",">">>)

\* astype(str) of a key column: text stays, an integer prints without point
CastKeys(t) ==
    LET KeyText(x) ==
            IF IsStr(x) THEN x
            ELSE IF IsNum(x) /\ x.v % 1000 = 0 THEN Str(IntDigits(x.v \div 1000))
            ELSE Str(ToText(x))
    IN
    [i \in DOMAIN t |->
        [t[i] EXCEPT !.collection_number = KeyText(@), !.drug = KeyText(@),
                     !.year = KeyText(@)]]

\* master.merge(vs, on=MERGE_KEYS, how="left")
MergeVendor(left, right) ==
    LET Joined(m) ==
            LET hits == SelectSeq(right, LAMBDA v : MERGE_KEYS(v) = MERGE_KEYS(m))
            IN IF hits = <<>>
                 THEN << [collection_number |-> m.collection_number,
                          drug |-> m.drug, year |-> m.year,
                          sir_vendor_raw |-> NA] >>
                 ELSE [i \in DOMAIN hits |->
                         [collection_number |-> m.collection_number,
                          drug |-> m.drug, year |-> m.year,
                          sir_vendor_raw |-> hits[i].sir_vendor_raw]]
    IN Flatten([n \in DOMAIN left |-> Joined(left[n])])

\* vs as concatenated from the raw files (the year as a number, as text,
\* with a fraction, or empty) and master
InitAugment ==
    /\ vs \in SeqsUpTo(
          [collection_number : {Num(1000)}, drug : {Str(Hdr.drug_a)},
           year : {Num(2020000), Str(<<"2","0","2","0">>), Num(2020400),
                   Num(2021000), NA},
           sir_vendor_raw : {Str(Txt.S), Str(Txt.Resistant)}], MaxVendor)
    /\ masterAug \in SeqsUpTo(
          [collection_number : {Num(1000)}, drug : {Str(Hdr.drug_a)},
           year : {Num(2020000), NA}], MaxVendor)
    /\ aug = <<>> /\ augPc = "concat"
    /\ helperIn = <<>> /\ helperOut = <<>> /\ helperPc = "idle"
    /\ SnakeIdle /\ BpIdle /\ CleanIdle

\* step 3, first line: vs = vs.drop_duplicates(subset=MERGE_KEYS)
Dedupe ==
    /\ augPc = "concat"
    /\ vs' = DropDuplicates(vs)
    /\ augPc' = "deduped"
    /\ UNCHANGED <<masterAug, aug, snakeVars, bpVars, cleanVars, helperVars>>

\* step 3, the loop: the year of master and of vs becomes text
NormaliseYears ==
    /\ augPc = "deduped"
    /\ vs' = [i \in DOMAIN vs |-> [vs[i] EXCEPT !.year = YearText(@)]]
    /\ masterAug' =
          [i \in DOMAIN masterAug |-> [masterAug[i] EXCEPT !.year = YearText(@)]]
    /\ augPc' = "normalised"
    /\ UNCHANGED <<aug, snakeVars, bpVars, cleanVars, helperVars>>

\* step 5: the keys are cast to text and master is merged with vs; under
\* validate="many_to_one" the merge raises MergeError when a key of vs is
\* not unique
MergeVendorSir ==
    /\ augPc = "normalised"
    /\ vs' = CastKeys(vs)
    /\ masterAug' = CastKeys(masterAug)
    /\ IF \A i, j \in DOMAIN vs :
             i # j => MERGE_KEYS(CastKeys(vs)[i]) # MERGE_KEYS(CastKeys(vs)[j])
         THEN /\ aug' = MergeVendor(CastKeys(masterAug), CastKeys(vs))
              /\ augPc' = "merged"
         ELSE /\ aug' = <<>>
              /\ augPc' = "MergeError"
    /\ UNCHANGED <<snakeVars, bpVars, cleanVars, helperVars>>

NextAugment == Dedupe \/ NormaliseYears \/ MergeVendorSir
SpecAugment == InitAugment /\ [][NextAugment]_vars

\* no two rows of a table have the same key
ManyToOne(right) ==
    \A i, j \in DOMAIN right :
       i # j => <<right[i].collection_number, right[i].drug, right[i].year>>
                  # <<right[j].collection_number, right[j].drug, right[j].year>>

\* C21: the vendor table is de-duplicated on (collection_number, drug,
\* year) so that at the moment of the merge, after the year normalisation
\* and the cast of the keys to text, it holds at most one row per key; the
\* many-to-one left merge succeeds and the augmented table has one row per
\* master row.
C21_DedupedAtMerge ==
    /\ augPc = "normalised" => ManyToOne(CastKeys(vs))
    /\ augPc # "MergeError"
    /\ augPc = "merged" => Len(aug) = Len(masterAug)

\* What holds: the keys are unique right after drop_duplicates, as the raw
\* values they are then, and a merge that succeeds gives one row per master
\* row.
DedupedBeforeNormalisation ==
    /\ augPc = "deduped" => ManyToOne(vs)
    /\ augPc = "merged" => (ManyToOne(vs) /\ Len(aug) = Len(masterAug))


\* the entries of a break-point sheet for the (organism, drug) of an observation
SheetEntries(sheet, o) ==
    SelectSeq(sheet, LAMBDA b : /\ IsStr(o.organism) /\ o.organism.s = b.cls_i_organism
                                /\ IsStr(o.drug) /\ o.drug.s = b.cls_i_drug)
\* attach_breakpoints has returned
Attached == bpc \in {"assign", "done"}

\* C22: attach_breakpoints attaches to each observation at most one
\* break-point pair, the CLSI one when CLSI has an entry for its (organism,
\* drug) and the EUCAST one only when CLSI has none; the table it returns
\* has as many rows as the table it received.
C22_OnePairPerObservation ==
    Attached =>
        /\ Len(master) = Len(obs)
        /\ \A n \in DOMAIN obs :
              n \in DOMAIN master =>
                 /\ master[n].mic = obs[n].mic
                 /\ SheetEntries(ClsiSheet, obs[n]) # <<>>
                      => master[n].source = Str(Txt.CLSI)
                 /\ (SheetEntries(ClsiSheet, obs[n]) = <<>>
                       /\ SheetEntries(EucastSheet, obs[n]) # <<>>)
                      => master[n].source = Str(Txt.EUCAST)

\* What holds: an observation gets one row per sheet entry of its
\* (organism, drug), CLSI and EUCAST alike, and one row without break-points
\* when neither sheet has an entry.
OneRowPerEntry ==
    Attached =>
        /\ Len(master) >= Len(obs)
        /\ \A n \in DOMAIN obs :
              LET entries == Len(SheetEntries(ClsiSheet, obs[n]))
                               + Len(SheetEntries(EucastSheet, obs[n]))
                  rows == Len(attach_breakpoints(<<obs[n]>>))
              IN rows = IF entries = 0 THEN 1 ELSE entries
        /\ (\A n \in DOMAIN obs :
               SheetEntries(ClsiSheet, obs[n]) = <<>>
                 \/ SheetEntries(EucastSheet, obs[n]) = <<>>)
             => Len(master) = Len(obs)


====
